---- MODULE Spec2Model ----
(***************************************************************************)
(* GhostInput: the per-tab timer scheduling and execution-recovery engine  *)
(* of the background service worker (src/constants.js, lines 81-1082) and  *)
(* the instance store it calls (src/src/storage.js).                       *)
(*                                                                         *)
(* Every handler of the service worker is an async function.  JavaScript   *)
(* runs it to completion between two awaits, so a handler is modelled as a *)
(* task whose steps are the stretches of code between its awaits: a step   *)
(* takes the result of the I/O the task was awaiting (a store read, a      *)
(* store write, a tab lookup, a script injection) and runs the code that   *)
(* follows it up to the next await.  Tasks interleave only at those        *)
(* points, as the handlers do.                                             *)
(***************************************************************************)
EXTENDS Integers, Sequences, FiniteSets, TLC

(***************************************************************************)
(* Program constants.                                                      *)
(***************************************************************************)
MAX_RECOVERY_ATTEMPTS == 3
MAX_INSTANCES_PER_ACTION == 5
MAX_RETRY_ATTEMPTS == 3
MAX_INTERVAL_MS == 86400000
MIN_INTERVAL_MS == 100

(***************************************************************************)
(* Bounds of the model.                                                    *)
(***************************************************************************)
\* the handlers that may be in flight together where handlers interleave
MaxTasks == 3
\* operations (requests, tab closures, timer fires) begun in one behaviour
MaxOps == 3
\* operations begun in a behaviour whose handlers run one after the other
MaxSeqOps == 5
\* requests and store failures in SpecFail
MaxFailOps == 3
\* store calls begun in a behaviour of the store alone
MaxCalls == 3
\* store calls begun in a behaviour of SpecRetry
MaxRetryCalls == 2
\* operations begun in a behaviour of SpecRace
MaxRaceOps == 3
\* operations begun in a behaviour of SpecDraw
MaxDrawOps == 3
\* timers that fire in a behaviour of SpecHang
MaxHangOps == 4
\* how far the clock goes, in units of the time limit
MaxTime == 1
\* operations begun in a behaviour of the actions with limits
MaxLimitOps == 4
\* operations begun in a behaviour about a global disable
MaxOffOps == 3
\* tab closures and stop requests in a behaviour of tab closures
MaxCloses == 3
\* STOP_ACTION requests in a behaviour
MaxStopAlls == 2
\* the random source: the draws 0/DrawSteps .. (DrawSteps - 1)/DrawSteps,
\* and the largest number below 1 it can give
DrawSteps == 4

Actions == {"a1", "a2", "a3"}
\* an action id the store holds no action for
UnknownAction == "a9"
TabIds == 1..(MAX_INSTANCES_PER_ACTION + 1)
Keys == (Actions \cup {UnknownAction}) \X TabIds
NoKey == <<"none", 0>>
\* the messages of the errors a script injection may raise
Errors == {"e1", "e2"}
\* the handlers a behaviour may begin
Kinds == {"startup", "start", "stop", "toggle", "tabClosed", "cycle", "call",
          "refresh", "import", "stopAll"}
\* task slots: initializeTimers may run one scheduleActionOnTab per instance
TaskIds == 1..(MAX_INSTANCES_PER_ACTION + 1)
\* the operation names executeWithRetry is called with
InstanceOps == {"addActionInstance", "removeActionInstance", "updateActionInstance"}
OpNames == InstanceOps \cup
           {"getActions", "saveActions", "getSettings", "saveSettings", "addLog"}

(***************************************************************************)
(* URLs and URL filters.  A URL is the sequence of its parts: the scheme   *)
(* with its separator first, then the characters that follow; a tab whose  *)
(* URL is not known has the empty URL.  A filter is the list of the        *)
(* patterns between its commas, a pattern being a sequence of characters,  *)
(* after "*." in the *.domain form.                                        *)
(***************************************************************************)
StartsWith(u, p) == Len(u) >= Len(p) /\ SubSeq(u, 1, Len(p)) = p
Includes(u, f) ==
    \E j \in 0..(Len(u) - Len(f)) : SubSeq(u, j + 1, j + Len(f)) = f

\* executeAction: the schemes of the pages no script is injected into
RestrictedSchemes ==
    {"chrome://", "edge://", "chrome-extension://", "about:", "file://"}
Restricted(url) == \E sch \in RestrictedSchemes : StartsWith(url, <<sch>>)

matchesUrlFilter(url, filter) ==
    IF filter = << >> \/ url = << >> THEN TRUE
    ELSE \E j \in 1..Len(filter) :
            IF StartsWith(filter[j], <<"*.">>)
            THEN Includes(url, Tail(filter[j]))
            ELSE Includes(url, filter[j])

\* a web page
PageUrl == <<"https://", "a", "b">>

(***************************************************************************)
(* calculateInterval.  The settings of an action are whole numbers (the    *)
(* popup reads them with parseInt), not negative here.  Math.random() is a *)
(* draw j, standing for j/DrawSteps when j < DrawSteps (with DrawSteps a   *)
(* power of two, the product and the sum of line 530 are then exact), and  *)
(* for the largest double below 1, 1 - 2^-53, when j = DrawSteps.          *)
(***************************************************************************)
TimeUnits == {"milliseconds", "seconds", "minutes", "hours"}
Multiplier(timeUnit) ==
    CASE timeUnit = "seconds" -> 1000
      [] timeUnit = "minutes" -> 60000
      [] timeUnit = "hours" -> 3600000
      [] OTHER -> 1

Max(a, b) == IF a >= b THEN a ELSE b
Min(a, b) == IF a <= b THEN a ELSE b

Draws == 0..DrawSteps
BelowOne == DrawSteps

\* IEEE 754 doubles, 53 bits of significand.  Exponent(n): 2^Exponent(n) <=
\* n < 2^(Exponent(n) + 1).  GapBelow(n) = g: the double next below the whole
\* number n is n - 2^-g.
Exponent(n) == CHOOSE e \in 0..30 : n \div (2 ^ e) = 1
GapBelow(n) ==
    IF n = 2 ^ Exponent(n) THEN 53 - Exponent(n) ELSE 52 - Exponent(n)

\* Math.floor(Math.random() * span + min).  For the draw below one the
\* product rounds to the double next below span, span - 2^-GapBelow(span);
\* adding min > 0 gives a number closer to span + min than to the double next
\* below it, or half way between them, when GapBelow(span) >
\* GapBelow(span + min), and the sum then rounds to span + min.
RandomInt(draw, span, min) ==
    IF draw # BelowOne THEN (draw * span) \div DrawSteps + min
    ELSE IF min > 0 /\ GapBelow(span) > GapBelow(span + min) THEN span + min
    ELSE span + min - 1

\* (a variant that does not clamp the base value)
calculateInterval_NoClamp(action, draw) ==
    action.interval * Multiplier(action.timeUnit)

calculateInterval(action, draw) ==
    LET baseMs == Max(MIN_INTERVAL_MS,
                      Min(MAX_INTERVAL_MS,
                          action.interval * Multiplier(action.timeUnit)))
        min0 == action.randomizeMin
        max0 == IF action.randomizeMax < min0 THEN min0 ELSE action.randomizeMax
        min == min0 * Multiplier(action.timeUnit)
        max == max0 * Multiplier(action.timeUnit)
    IN  IF action.randomize
           /\ (action.randomizeMin # 0 \/ action.randomizeMax # 0)
           /\ max > 0
        THEN RandomInt(draw, max - min + 1, min)
        ELSE baseMs

\* an action run after a random delay of 50 to 150 milliseconds
AboutEveryTenth ==
    [interval |-> 1, timeUnit |-> "milliseconds", randomize |-> TRUE,
     randomizeMin |-> 50, randomizeMax |-> 150]

\* an action run every second, not randomized
EverySecond ==
    [interval |-> 1, timeUnit |-> "seconds", randomize |-> FALSE,
     randomizeMin |-> 0, randomizeMax |-> 0]

\* the actions' settings and the surroundings of a behaviour, where a
\* behaviour does not say otherwise: no limits, no URL filter, tabs showing
\* a web page, every tab closure delivered at once, no forced
\* re-initialization, a store that answers every request, an action run
\* every second
Plain ==
    [repeatLimit |-> [a \in Actions |-> 0], timeLimit |-> [a \in Actions |-> 0],
     urlFilter |-> [a \in Actions |-> << >>], urls |-> {PageUrl},
     lateEvents |-> FALSE, refresh |-> FALSE,
     action |-> EverySecond, draw |-> 0, storeFails |-> FALSE,
     randomDraws |-> FALSE]

VARIABLES
    instances,              \* store: (action, tab) -> instance record
    globalEnabled,          \* store: settings.globalEnabled
    logs,                   \* store: the activity log, newest first
    activeTimers,           \* Map: (action, tab) -> timerId
    armed,                  \* timers set with setTimeout, not fired, not cleared
    errorRecoveryAttempts,  \* Map: (action, tab) -> failures counted
    isInitialized,          \* the one-shot flag of initializeTimers
    badge,                  \* the count last given to updateBadge
    tabsOpen,               \* the tabs chrome.tabs.get finds
    removedTabs,            \* closed tabs whose onRemoved event is not yet delivered
    now,                    \* Date.now(), in units of the time limit
    notifications,          \* the completion notifications shown, oldest first
    pendingOperations,      \* storage.js: operation name -> task whose promise is stored
    waitQ,                  \* tasks awaiting a pending operation, oldest first
    ioQ,                    \* tasks with a chrome.storage request under way, oldest first
    tasks,                  \* the handlers in flight
    budget,                 \* operations that may still begin
    scope,                  \* the keys and the task slots a behaviour uses
    lastEnd,                \* the handler that returned last, its result, and the one before
    intervalMs,             \* what calculateInterval returned last, -1 before any call
    hist                    \* history: dispatch outcomes per key, and the scripts
                            \* injected since the key's instance was created
                            \* (not program state)

vars == <<instances, globalEnabled, logs, activeTimers, armed,
          errorRecoveryAttempts, isInitialized, badge, tabsOpen, removedTabs,
          now, notifications, pendingOperations, waitQ, ioQ, tasks, budget, scope, lastEnd,
          intervalMs, hist>>

(***************************************************************************)
(* Maps (JavaScript objects and Map) are functions on the keys they hold.  *)
(***************************************************************************)
EmptyMap == [x \in {} |-> 0]
Put(f, k, v) == [x \in (DOMAIN f) \cup {k} |-> IF x = k THEN v ELSE f[x]]
Del(f, k) == [x \in (DOMAIN f) \ {k} |-> f[x]]
Merge(r, u) == [f \in DOMAIN r |-> IF f \in DOMAIN u THEN u[f] ELSE r[f]]
Range(f) == {f[x] : x \in DOMAIN f}
Get0(m, k) == IF k \in DOMAIN m THEN m[k] ELSE 0
With(r, u) == [f \in (DOMAIN r) \cup (DOMAIN u) |-> IF f \in DOMAIN u THEN u[f] ELSE r[f]]

\* a task: the handler it runs (kind), the await it stands at (pc), its key,
\* the locals of the handler, and what is recorded of it for the properties
\* (overlap, logged, streak, okStreak, outcome, notified, firedOff, and
\* storeErr: a store call of the handler threw a StorageError, threw: the
\* keys for which a call the handler made and awaits with others threw)
Idle ==
    [kind |-> "idle", pc |-> "none", k |-> NoKey, snap |-> EmptyMap,
     before |-> EmptyMap, lsnap |-> << >>, op |-> "none", upd |-> "none", rmwRet |-> "none",
     ret |-> "none", waitOn |-> 0, attempt |-> 0, count |-> 0, n |-> 0,
     attempts |-> 0, err |-> "none", opErr |-> "none", callRes |-> "none",
     res |-> "none", parent |-> 0, flag |-> FALSE,
     url |-> << >>, startedAt |-> 0, reason |-> "none",
     overlap |-> FALSE, logged |-> 0, streak |-> 0,
     okStreak |-> 0, outcome |-> "none", notified |-> 0, firedOff |-> FALSE,
     storeErr |-> FALSE, threw |-> {}]

NoEnd ==
    [kind |-> "none", k |-> NoKey, res |-> "none", err |-> "none",
     opErr |-> "none", callRes |-> "none", overlap |-> FALSE, logged |-> 0,
     streak |-> 0, attempt |-> 0, prevKind |-> "none", prevK |-> NoKey,
     okStreak |-> 0, outcome |-> "none", notified |-> 0, reason |-> "none",
     flag |-> FALSE, attempts |-> 0, startedAt |-> 0, url |-> << >>,
     hadTimers |-> 0, firedOff |-> FALSE, storeErr |-> FALSE, threw |-> {}]

(***************************************************************************)
(* The whole state as one record, so that the code between two awaits can  *)
(* be written as a function from state to state and the calls a handler    *)
(* makes can be composed.                                                  *)
(***************************************************************************)
State ==
    [instances |-> instances, globalEnabled |-> globalEnabled, logs |-> logs,
     activeTimers |-> activeTimers, armed |-> armed,
     errorRecoveryAttempts |-> errorRecoveryAttempts,
     isInitialized |-> isInitialized, badge |-> badge, tabsOpen |-> tabsOpen,
     removedTabs |-> removedTabs, now |-> now, notifications |-> notifications,
     pendingOperations |-> pendingOperations, waitQ |-> waitQ, ioQ |-> ioQ,
     tasks |-> tasks,
     budget |-> budget, scope |-> scope, lastEnd |-> lastEnd,
     intervalMs |-> intervalMs, hist |-> hist]

Commit(S) ==
    \E T \in {S} :
        /\ instances' = T.instances
        /\ globalEnabled' = T.globalEnabled
        /\ logs' = T.logs
        /\ activeTimers' = T.activeTimers
        /\ armed' = T.armed
        /\ errorRecoveryAttempts' = T.errorRecoveryAttempts
        /\ isInitialized' = T.isInitialized
        /\ badge' = T.badge
        /\ tabsOpen' = T.tabsOpen
        /\ removedTabs' = T.removedTabs
        /\ now' = T.now
        /\ notifications' = T.notifications
        /\ pendingOperations' = T.pendingOperations
        /\ waitQ' = T.waitQ
        /\ ioQ' = T.ioQ
        /\ tasks' = T.tasks
        /\ budget' = T.budget
        /\ scope' = T.scope
        /\ lastEnd' = T.lastEnd
        /\ intervalMs' = T.intervalMs
        /\ hist' = T.hist

SetT(S, i, u) == [S EXCEPT !.tasks[i] = Merge(@, u)]

IdleSlots(S) == {i \in 1..S.scope.maxTasks : S.tasks[i].kind = "idle"}
FreeSlot(S) == CHOOSE i \in IdleSlots(S) : \A j \in IdleSlots(S) : i <= j

\* a handler returns: its slot is free again
End(S, i) ==
    IF ~S.scope.history THEN [S EXCEPT !.tasks[i] = Idle] ELSE
    [S EXCEPT !.tasks[i] = Idle,
              !.lastEnd = [kind |-> S.tasks[i].kind, k |-> S.tasks[i].k,
                           res |-> S.tasks[i].res, err |-> S.tasks[i].err,
                           opErr |-> S.tasks[i].opErr,
                           callRes |-> S.tasks[i].callRes,
                           overlap |-> S.tasks[i].overlap,
                           logged |-> S.tasks[i].logged,
                           streak |-> S.tasks[i].streak,
                           attempt |-> S.tasks[i].attempt,
                           prevKind |-> S.lastEnd.kind,
                           prevK |-> S.lastEnd.k,
                           okStreak |-> S.tasks[i].okStreak,
                           outcome |-> S.tasks[i].outcome,
                           notified |-> S.tasks[i].notified,
                           reason |-> S.tasks[i].reason,
                           flag |-> S.tasks[i].flag,
                           attempts |-> S.tasks[i].attempts,
                           startedAt |-> S.tasks[i].startedAt,
                           url |-> S.tasks[i].url,
                           hadTimers |->
                               IF "activeTimers" \in DOMAIN S.tasks[i].before
                               THEN Cardinality(DOMAIN S.tasks[i].before.activeTimers)
                               ELSE 0,
                           firedOff |-> S.tasks[i].firedOff,
                           storeErr |-> S.tasks[i].storeErr,
                           threw |-> S.tasks[i].threw]]

(***************************************************************************)
(* Timers.  setTimeout returns an id no live timer and no registry entry   *)
(* holds; clearTimeout of a fired or cleared id does nothing.              *)
(***************************************************************************)
clearTimeout(S, id) == [S EXCEPT !.armed = {x \in @ : x.id # id}]

FreshId(S, k) ==
    LET used == {x.id : x \in S.armed} \cup Range(Del(S.activeTimers, k))
    IN  CHOOSE n \in 1..(Cardinality(used) + 1) :
            /\ n \notin used
            /\ \A m \in 1..(n - 1) : m \in used

\* (a variant that empties the registry and cancels no timer)
clearAllTimers_KeepsArmed(S) == [S EXCEPT !.activeTimers = EmptyMap]

clearAllTimers(S) ==
    [S EXCEPT !.armed = {x \in @ : x.id \notin Range(S.activeTimers)},
              !.activeTimers = EmptyMap]

CountEnabled(m) == Cardinality({k \in DOMAIN m : m[k].enabled})

(***************************************************************************)
(* storage.js: executeWithRetry.  Every store function runs its operation  *)
(* through it under the function's name.  A call first awaits the promise  *)
(* stored under the name, if any (once, without looking again afterwards), *)
(* then starts its operation and stores its own promise; when the          *)
(* operation has settled it deletes the entry of the name, whoever stored  *)
(* it.                                                                     *)
(*                                                                         *)
(* A task at pc awaits the store function AcquireAt(pc) names: with        *)
(* waitOn = 0 its chrome.storage request is under way, otherwise it still  *)
(* awaits the promise of the task waitOn.  The step that takes the result  *)
(* of the request is the moment the request reads or writes the store.     *)
(* Where scope.fifo holds, chrome.storage answers the requests in the      *)
(* order they were made (ioQ); elsewhere it answers them in any order.     *)
(***************************************************************************)
\* the awaits of a chrome.storage request
StoragePcs ==
    {"cyc_getActions", "start_getActions", "init_getActions", "tc_getActions",
     "sa_getActions", "cyc_recGetActions",
     "badge_getActions", "rmw_read", "cyc_getSettings", "start_getSettings",
     "tg_getSettings", "init_getSettings", "badge_getSettings", "rmw_write",
     "start_saveSettings", "tg_saveSettings", "cyc_addLog", "tc_addLog",
     "cyc_setLogs", "tc_setLogs"}

\* task i makes its request
Request(S, i) == IF S.scope.fifo THEN [S EXCEPT !.ioQ = Append(@, i)] ELSE S

\* the request of task i is answered
Answered(S, i) ==
    IF S.scope.fifo THEN [S EXCEPT !.ioQ = SelectSeq(@, LAMBDA x : x # i)] ELSE S

AcquireAt(pc) ==
    CASE pc \in {"cyc_getActions", "start_getActions", "init_getActions",
                 "tc_getActions", "sa_getActions", "cyc_recGetActions",
                 "badge_getActions",
                 "rmw_read"} -> "getActions"
      [] pc \in {"cyc_getSettings", "start_getSettings", "tg_getSettings",
                 "init_getSettings", "badge_getSettings"} -> "getSettings"
      [] pc = "rmw_write" -> "saveActions"
      [] pc \in {"start_saveSettings", "tg_saveSettings"} -> "saveSettings"
      [] pc \in {"cyc_addLog", "tc_addLog"} -> "addLog"
      [] OTHER -> "none"

\* addLog holds its name from its reads (x_addLog) to its write (x_setLogs)
ReleaseAt(pc) ==
    CASE pc \in {"cyc_addLog", "tc_addLog"} -> "none"
      [] pc \in {"cyc_setLogs", "tc_setLogs"} -> "addLog"
      [] OTHER -> AcquireAt(pc)

\* the name a waiting task awaits the pending promise of
WaitName(t) == IF t.pc = "rmw_wait" THEN t.op ELSE AcquireAt(t.pc)

RECURSIVE Continue(_, _, _)
RECURSIVE Wake(_, _, _, _, _)

\* the task goes to the await at pc: lines 53-56 and 79 of executeWithRetry
\* for the store function awaited there
Await(S, i, pc) ==
    LET n == AcquireAt(pc)
    IN  IF n = "none" THEN SetT(S, i, [pc |-> pc, waitOn |-> 0])
        ELSE IF S.pendingOperations[n] # 0
        THEN [SetT(S, i, [pc |-> pc, waitOn |-> S.pendingOperations[n]])
                 EXCEPT !.waitQ = Append(@, i)]
        ELSE [Request(SetT(S, i, [pc |-> pc, waitOn |-> 0]), i)
                 EXCEPT !.pendingOperations[n] = i]

\* executeWithRetry called for one of the three instance operations, which
\* read the actions, change their copy and write it back
executeWithRetry(S, i, name, upd, rmwRet) ==
    LET S1 == SetT(S, i, [op |-> name, upd |-> upd, rmwRet |-> rmwRet,
                          attempt |-> 1, opErr |-> "none", callRes |-> "none"])
    IN  IF S.pendingOperations[name] # 0
        THEN [SetT(S1, i, [pc |-> "rmw_wait", waitOn |-> S.pendingOperations[name]])
                 EXCEPT !.waitQ = Append(@, i)]
        ELSE Await([S1 EXCEPT !.pendingOperations[name] = i], i, "rmw_read")

\* the promise of task p under the name n has settled: the tasks awaiting it
\* resume in the order they began to wait.  Each starts its own operation and
\* stores its own promise; when the promise was rejected, the waiting call
\* throws that error without running its operation
Wake(S, q, p, n, ok) ==
    IF q = << >> THEN S
    ELSE LET j == Head(q)
         IN  IF S.tasks[j].waitOn # p \/ WaitName(S.tasks[j]) # n
             THEN Wake(S, Tail(q), p, n, ok)
             ELSE LET S1 == [S EXCEPT !.waitQ = SelectSeq(@, LAMBDA x : x # j)]
                  IN  IF S.tasks[j].pc # "rmw_wait"
                      THEN Wake([Request(SetT(S1, j, [waitOn |-> 0]), j)
                                    EXCEPT !.pendingOperations[n] = j],
                                Tail(q), p, n, ok)
                      ELSE IF ok
                      THEN Wake(Await([S1 EXCEPT !.pendingOperations[n] = j],
                                      j, "rmw_read"),
                                Tail(q), p, n, ok)
                      ELSE Wake(Continue(SetT(S1, j, [pc |-> "none", waitOn |-> 0,
                                                      op |-> "none",
                                                      callRes |-> "StorageError",
                                                      storeErr |-> TRUE]),
                                         j, S.tasks[j].rmwRet),
                                Tail(q), p, n, ok)

\* the request of task i is answered; the finally of executeWithRetry for
\* the store function the task awaited at its pc: the entry of the name is
\* deleted
Release(S, i) ==
    LET n == ReleaseAt(S.tasks[i].pc)
        S1 == Answered(S, i)
    IN  IF n = "none" THEN S1
        ELSE Wake([S1 EXCEPT !.pendingOperations[n] = 0], S1.waitQ, i, n, TRUE)

\* the instance operation of task i settles with res
SettleCall(S, i, res) ==
    LET name == S.tasks[i].op
        S1 == [S EXCEPT !.pendingOperations[name] = 0]
        S2 == Wake(S1, S1.waitQ, i, name, res # "StorageError")
    IN  Continue(SetT(S2, i, [pc |-> "none", op |-> "none", callRes |-> res,
                              storeErr |-> S.tasks[i].storeErr
                                              \/ res = "StorageError"]),
                 i, S.tasks[i].rmwRet)

\* (a variant that runs the operation once more before it gives up)
OperationThrows_OneMore(S, i, error) ==
    IF S.tasks[i].attempt <= MAX_RETRY_ATTEMPTS
    THEN SetT(S, i, [attempt |-> S.tasks[i].attempt + 1, opErr |-> error,
                     pc |-> "rmw_delay"])
    ELSE SettleCall(SetT(S, i, [opErr |-> error]), i, "StorageError")

\* the operation threw: the retry loop runs it again after a delay, whatever
\* the error was, and gives up with a StorageError after the last attempt
OperationThrows(S, i, error) ==
    IF S.tasks[i].attempt < MAX_RETRY_ATTEMPTS
    THEN SetT(S, i, [attempt |-> S.tasks[i].attempt + 1, opErr |-> error,
                     pc |-> "rmw_delay"])
    ELSE SettleCall(SetT(S, i, [opErr |-> error]), i, "StorageError")

\* the delay before the next attempt is over: the operation calls getActions
retryDelayOver(S, i) == Await(S, i, "rmw_read")

InstancesOf(m, a) == {k \in DOMAIN m : k[1] = a}
NewInstance == [enabled |-> TRUE, executionCount |-> 0, startedAt |-> 0]

\* validateAction, for every action of the list: the instances limit
validateAction(m) ==
    \A a \in Actions : Cardinality(InstancesOf(m, a)) <= MAX_INSTANCES_PER_ACTION

\* saveActions called with the copy of an operation
saveActions(S, i, copy) ==
    IF ~validateAction(copy)
    THEN OperationThrows(S, i, "ValidationError")
    ELSE Await(SetT(S, i, [snap |-> copy]), i, "rmw_write")

\* (a variant that adds the copy to the stored list instead of replacing it)
saveActionsDone_Merges(S, i) ==
    SettleCall([S EXCEPT !.instances =
                   [k \in DOMAIN S.instances \cup DOMAIN S.tasks[i].snap |->
                       IF k \in DOMAIN S.tasks[i].snap
                       THEN S.tasks[i].snap[k] ELSE S.instances[k]]],
               i, "ok")

\* chrome.storage.local.set of saveActions is done: the list is replaced by
\* the copy, and the operation returns
saveActionsDone(S, i) ==
    SettleCall([S EXCEPT !.instances = S.tasks[i].snap], i, "ok")

\* addActionInstance's operation, from the actions it read
addActionInstance(S, i) ==
    LET k == S.tasks[i].k
        m == S.instances
    IN  IF k[1] \notin Actions
        THEN OperationThrows(S, i, "ValidationError")
        ELSE IF /\ Cardinality(InstancesOf(m, k[1])) >= MAX_INSTANCES_PER_ACTION
                /\ k \notin DOMAIN m
        THEN OperationThrows(S, i, "ValidationError")
        ELSE saveActions(S, i, Put(m, k, [NewInstance EXCEPT !.startedAt = S.now]))

\* (a variant that throws when the action has no instance on the tab)
removeActionInstance_Strict(S, i) ==
    LET k == S.tasks[i].k
    IN  IF k \notin DOMAIN S.instances
        THEN OperationThrows(S, i, "ValidationError")
        ELSE saveActions(S, i, Del(S.instances, k))

\* removeActionInstance's operation, from the actions it read
removeActionInstance(S, i) ==
    LET k == S.tasks[i].k
    IN  IF k[1] \notin Actions
        THEN SettleCall(S, i, "null")
        ELSE saveActions(S, i, Del(S.instances, k))

\* updateActionInstance's operation, from the actions it read
updateActionInstance(S, i) ==
    LET k == S.tasks[i].k
        m == S.instances
    IN  IF k \notin DOMAIN m
        THEN SettleCall(S, i, "null")
        ELSE saveActions(S, i,
                 IF S.tasks[i].upd = "executionCount"
                 THEN Put(m, k, [m[k] EXCEPT !.executionCount = S.tasks[i].count])
                 ELSE m)

\* getActions returns inside an instance operation
OperationReads(S, i) ==
    CASE S.tasks[i].op = "addActionInstance" -> addActionInstance(S, i)
      [] S.tasks[i].op = "removeActionInstance" -> removeActionInstance(S, i)
      [] S.tasks[i].op = "updateActionInstance" -> updateActionInstance(S, i)

(***************************************************************************)
(* The service worker's procedures.  Each takes the task that runs it and  *)
(* the place the task goes on from when the procedure returns, and runs    *)
(* the procedure's code up to its first await.                             *)
(***************************************************************************)
\* scheduleActionOnTab: the interval is computed (with the next value of
\* Math.random, scope.draw) and an interval out of bounds is thrown as
\* "Invalid interval", which the caller meets at its await; otherwise clear
\* the timer of the registry entry, set a new timer, record it, then store
\* nextExecution in the instance
scheduleActionOnTab(S, i, ret) ==
    LET k == S.tasks[i].k
        delayMs == calculateInterval(S.scope.action, S.scope.draw)
        S1 == IF k \in DOMAIN S.activeTimers
              THEN clearTimeout(S, S.activeTimers[k]) ELSE S
        id == FreshId(S1, k)
        S2 == [S1 EXCEPT !.armed = @ \cup {[id |-> id, k |-> k]},
                         !.activeTimers = Put(@, k, id)]
    IN  IF delayMs < MIN_INTERVAL_MS \/ delayMs > MAX_INTERVAL_MS
        THEN SetT(S, i, [ret |-> ret, pc |-> "sched_thrown", waitOn |-> 0])
        ELSE executeWithRetry(SetT(S2, i, [ret |-> ret]), i,
                              "updateActionInstance", "nextExecution", "sched_ret")

\* stopActionOnTab: clear and delete the timer entry, delete the recovery
\* counter, then remove the stored instance and refresh the badge
\* (the history of consecutive failures ends with the instance)
stopActionOnTab(S, i, ret) ==
    LET k == S.tasks[i].k
        S1 == IF k \in DOMAIN S.activeTimers
              THEN clearTimeout(S, S.activeTimers[k]) ELSE S
        S2 == [S1 EXCEPT !.activeTimers = Del(@, k),
                         !.errorRecoveryAttempts = Del(@, k),
                         !.hist.streak = Del(@, k),
                         !.hist.okStreak = Del(@, k)]
    IN  executeWithRetry(SetT(S2, i, [ret |-> ret]), i,
                         "removeActionInstance", "none", "stop_removed")

\* refreshBadge: awaits getActions, then getSettings
refreshBadge(S, i, ret) == Await(SetT(S, i, [ret |-> ret]), i, "badge_getActions")

\* initializeTimers, up to its first await
initializeTimers(S, i, ret) ==
    IF S.isInitialized
    THEN Continue(S, i, ret)
    ELSE Await(SetT([S EXCEPT !.isInitialized = TRUE], i, [ret |-> ret]),
               i, "init_getActions")

MaxLogsSetting == 100

LogEntry(k, success, error) ==
    [actionId |-> k[1], tabId |-> k[2], success |-> success, error |-> error]

\* addLog: getSettings and getLogs have returned
addLogReads(S, i) ==
    Request(SetT(S, i, [lsnap |-> S.logs,
                        pc |-> IF S.tasks[i].pc = "cyc_addLog"
                               THEN "cyc_setLogs" ELSE "tc_setLogs"]), i)

\* addLog: the entry goes first in the list that was read, the list keeps
\* settings.maxLogs entries and is written back
addLog(S, i, entry) ==
    LET l == <<entry>> \o S.tasks[i].lsnap
    IN  SetT([S EXCEPT !.logs = IF Len(l) > MaxLogsSetting
                                THEN SubSeq(l, 1, MaxLogsSetting) ELSE l],
             i, [logged |-> S.tasks[i].logged + 1, lsnap |-> << >>])

\* the order in which a loop over the actions and their instances meets keys
Rank(k) ==
    (CASE k[1] = "a1" -> 0 [] k[1] = "a2" -> 10 [] OTHER -> 20) + k[2]
FirstKey(ks) == CHOOSE k \in ks : \A o \in ks : Rank(k) <= Rank(o)

Children(S, p) == {j \in TaskIds : S.tasks[j].kind # "idle" /\ S.tasks[j].parent = p}

\* what a handler finds when it begins, kept for the properties
Before(S) ==
    IF S.scope.history
    THEN [instances |-> S.instances, activeTimers |-> S.activeTimers,
          errorRecoveryAttempts |-> S.errorRecoveryAttempts, logs |-> S.logs,
          armed |-> S.armed, notifications |-> S.notifications,
          globalEnabled |-> S.globalEnabled]
    ELSE EmptyMap

\* a handler begins in a free slot
\* (overlap records, for the new handler and for those in flight, that two
\* handlers of one key were in flight together)
NewTask(S, kind, k, parent) ==
    LET c == FreeSlot(S)
        same == {j \in TaskIds : S.tasks[j].kind # "idle" /\ S.tasks[j].k = k}
    IN  [S EXCEPT !.tasks =
            [j \in TaskIds |->
                IF j = c
                THEN Merge(Idle, [kind |-> kind, k |-> k, parent |-> parent,
                                  before |-> Before(S),
                                  overlap |-> same # {}])
                ELSE IF j \in same THEN Merge(@[j], [overlap |-> TRUE])
                ELSE @[j]]]

\* initializeTimers' loop: scheduleActionOnTab is called for every enabled
\* instance before any of the calls is awaited (Promise.all)
RECURSIVE ScheduleAll(_, _, _)
ScheduleAll(S, p, ks) ==
    IF ks = {} THEN S
    ELSE LET k == FirstKey(ks)
             c == FreeSlot(S)
         IN  ScheduleAll(scheduleActionOnTab(NewTask(S, "schedule", k, p), c, "init_then"),
                         p, ks \ {k})

\* the tab-closed listener's loop: stopActionOnTab is called for every action
\* with an instance on the tab before any of the calls is awaited
RECURSIVE StopAll(_, _, _)
StopAll(S, p, ks) ==
    IF ks = {} THEN S
    ELSE LET k == FirstKey(ks)
             c == FreeSlot(S)
         IN  StopAll(stopActionOnTab(NewTask(S, "cleanup", k, p), c, "tc_then"),
                     p, ks \ {k})

\* stopActionOnAllTabs' map: stopActionOnTab is called for every instance of
\* the action before any of the calls is awaited (Promise.all)
RECURSIVE StopOnAllTabs(_, _, _)
StopOnAllTabs(S, p, ks) ==
    IF ks = {} THEN S
    ELSE LET k == FirstKey(ks)
             c == FreeSlot(S)
         IN  StopOnAllTabs(stopActionOnTab(NewTask(S, "cleanup", k, p), c, "sa_then"),
                           p, ks \ {k})

(***************************************************************************)
(* executeAndRescheduleOnTab, one definition for each await it resumes     *)
(* from.                                                                   *)
(***************************************************************************)
\* (a variant that leaves the registry entry of a key without an enabled
\* instance)
cycleGotActions_KeepsEntry(S, i) ==
    LET k == S.tasks[i].k
    IN  IF k \notin DOMAIN S.instances \/ ~S.instances[k].enabled
        THEN refreshBadge(S, i, "end")
        ELSE Await(SetT(S, i, [count |-> S.instances[k].executionCount,
                               startedAt |-> S.instances[k].startedAt]),
                   i, "cyc_getSettings")

\* getActions returned: the instance is looked up afresh
cycleGotActions(S, i) ==
    LET k == S.tasks[i].k
    IN  IF k \notin DOMAIN S.instances \/ ~S.instances[k].enabled
        THEN refreshBadge([S EXCEPT !.activeTimers = Del(@, k)], i, "end")
        ELSE Await(SetT(S, i, [count |-> S.instances[k].executionCount,
                               startedAt |-> S.instances[k].startedAt]),
                   i, "cyc_getSettings")

\* getSettings returned
\* (a variant of cycleGotSettings that does not look at the global flag)
cycleGotSettings_IgnoresFlag(S, i) == Await(S, i, "cyc_tabsGet")

cycleGotSettings(S, i) ==
    LET k == S.tasks[i].k
    IN  IF ~S.globalEnabled
        THEN End([S EXCEPT !.activeTimers = Del(@, k)], i)
        ELSE Await(S, i, "cyc_tabsGet")

\* executeAction returned: success, and the local attempts is set to 0
\* (the history of consecutive failures of the key ends; a script that was
\* injected and ran is one more successful dispatch in a row)
cycleExecuted(S, i) ==
    LET k == S.tasks[i].k
        injected == ~Restricted(S.tasks[i].url)
        ok == IF injected THEN Get0(S.hist.okStreak, k) + 1
                          ELSE Get0(S.hist.okStreak, k)
        S1 == IF S.scope.history
              THEN [S EXCEPT !.hist.streak = Del(@, k),
                             !.hist.okStreak = Put(@, k, ok),
                             !.hist.dispatched =
                                 IF injected THEN Put(@, k, Get0(@, k) + 1) ELSE @]
              ELSE [S EXCEPT !.hist.streak = Del(@, k)]
    IN  executeWithRetry(SetT(S1, i,
                              [attempts |-> 0, count |-> S.tasks[i].count + 1,
                               okStreak |-> IF S.scope.history THEN ok ELSE 0,
                               outcome |-> IF injected THEN "success" ELSE "skipped"]),
                         i, "updateActionInstance", "executionCount", "cyc_limits")

\* (a variant that does not look at the URL filter)
cycleGotTab_NoFilter(S, i, url) ==
    LET k == S.tasks[i].k
        S1 == SetT(S, i, [url |-> url,
                          attempts |-> Get0(S.errorRecoveryAttempts, k)])
    IN  IF k[2] \notin S.tabsOpen
        THEN stopActionOnTab(SetT(S, i, [outcome |-> "tabMissing",
                                         attempts |-> Get0(S.errorRecoveryAttempts, k)]),
                             i, "end")
        ELSE IF Restricted(url)
        THEN cycleExecuted(S1, i)
        ELSE Await(S1, i, "cyc_execute")

\* (a variant that counts a failed tab lookup as a failed dispatch)
cycleGotTab_MissingTabFails(S, i, url) ==
    LET k == S.tasks[i].k
        filter == S.scope.urlFilter[k[1]]
        S1 == SetT(S, i, [url |-> url,
                          attempts |-> Get0(S.errorRecoveryAttempts, k)])
    IN  IF k[2] \notin S.tabsOpen
        THEN scheduleActionOnTab(
                 [SetT(S, i, [outcome |-> "tabMissing",
                              attempts |-> Get0(S.errorRecoveryAttempts, k)])
                     EXCEPT !.errorRecoveryAttempts =
                                Put(@, k, Get0(S.errorRecoveryAttempts, k) + 1)],
                 i, "end")
        ELSE IF filter # << >> /\ ~matchesUrlFilter(url, filter)
        THEN scheduleActionOnTab(SetT(S, i, [url |-> url, outcome |-> "filtered"]),
                                 i, "end")
        ELSE IF Restricted(url)
        THEN cycleExecuted(S1, i)
        ELSE Await(S1, i, "cyc_execute")

\* chrome.tabs.get threw, or returned the tab with the URL it shows: the URL
\* filter, then the recovery counter is read and executeAction is called,
\* which returns at once for a page of a restricted scheme
cycleGotTab(S, i, url) ==
    LET k == S.tasks[i].k
        filter == S.scope.urlFilter[k[1]]
        S1 == SetT(S, i, [url |-> url,
                          attempts |-> Get0(S.errorRecoveryAttempts, k)])
    IN  IF k[2] \notin S.tabsOpen
        THEN stopActionOnTab(SetT(S, i, [outcome |-> "tabMissing",
                                         attempts |-> Get0(S.errorRecoveryAttempts, k)]),
                             i, "end")
        ELSE IF filter # << >> /\ ~matchesUrlFilter(url, filter)
        THEN scheduleActionOnTab(SetT(S, i, [url |-> url, outcome |-> "filtered"]),
                                 i, "end")
        ELSE IF Restricted(url)
        THEN cycleExecuted(S1, i)
        ELSE Await(S1, i, "cyc_execute")

\* (a variant that gives up one failure later)
cycleFailed_OffByOne(S, i, e) ==
    LET k == S.tasks[i].k
        attempts == S.tasks[i].attempts + 1
        streak == IF S.scope.history THEN Get0(S.hist.streak, k) + 1 ELSE 0
        S1 == SetT(IF S.scope.history
                   THEN [S EXCEPT !.hist.streak = Put(@, k, streak),
                                  !.hist.okStreak = Del(@, k)]
                   ELSE S,
                   i, [err |-> e, streak |-> streak, attempts |-> attempts,
                       outcome |-> "failure"])
    IN  IF attempts > MAX_RECOVERY_ATTEMPTS
        THEN stopActionOnTab(IF S.scope.history
                             THEN [S1 EXCEPT !.hist.abortStreak = Put(@, k, streak)]
                             ELSE S1,
                             i, "cyc_abortLog")
        ELSE scheduleActionOnTab(
                 [S1 EXCEPT !.errorRecoveryAttempts = Put(@, k, attempts)],
                 i, "end")

\* executeAction threw the error e
cycleFailed(S, i, e) ==
    LET k == S.tasks[i].k
        attempts == S.tasks[i].attempts + 1
        streak == IF S.scope.history THEN Get0(S.hist.streak, k) + 1 ELSE 0
        S1 == SetT(IF S.scope.history
                   THEN [S EXCEPT !.hist.streak = Put(@, k, streak),
                                  !.hist.okStreak = Del(@, k)]
                   ELSE S,
                   i, [err |-> e, streak |-> streak, attempts |-> attempts,
                       outcome |-> "failure"])
    IN  IF attempts >= MAX_RECOVERY_ATTEMPTS
        THEN stopActionOnTab(IF S.scope.history
                             THEN [S1 EXCEPT !.hist.abortStreak = Put(@, k, streak)]
                             ELSE S1,
                             i, "cyc_abortLog")
        ELSE scheduleActionOnTab(
                 [S1 EXCEPT !.errorRecoveryAttempts = Put(@, k, attempts)],
                 i, "end")

\* notifyCompletion, and the cycle returns
notifyCompletion(S, i) ==
    End(SetT([S EXCEPT !.notifications =
                  Append(@, [k |-> S.tasks[i].k, reason |-> S.tasks[i].reason])],
             i, [notified |-> S.tasks[i].notified + 1]), i)

\* (a variant that stops one execution after the repeat limit)
cycleLimits_OneMore(S, i) ==
    LET a == S.tasks[i].k[1]
        newCount == S.tasks[i].count
        repeatLimit == S.scope.repeatLimit[a]
        timeLimit == S.scope.timeLimit[a]
    IN  IF repeatLimit # 0 /\ newCount > repeatLimit
        THEN stopActionOnTab(SetT(S, i, [reason |-> "executions"]), i, "cyc_notify")
        ELSE IF timeLimit # 0 /\ S.now - S.tasks[i].startedAt >= timeLimit
        THEN stopActionOnTab(SetT(S, i, [reason |-> "minutes"]), i, "cyc_notify")
        ELSE scheduleActionOnTab(S, i, "end")

\* (a variant that looks at the time limit first)
cycleLimits_TimeFirst(S, i) ==
    LET a == S.tasks[i].k[1]
        newCount == S.tasks[i].count
        repeatLimit == S.scope.repeatLimit[a]
        timeLimit == S.scope.timeLimit[a]
    IN  IF timeLimit # 0 /\ S.now - S.tasks[i].startedAt >= timeLimit
        THEN stopActionOnTab(SetT(S, i, [reason |-> "minutes"]), i, "cyc_notify")
        ELSE IF repeatLimit # 0 /\ newCount >= repeatLimit
        THEN stopActionOnTab(SetT(S, i, [reason |-> "executions"]), i, "cyc_notify")
        ELSE scheduleActionOnTab(S, i, "end")

\* the execution count is stored: the repeat limit, then the time limit
\* (on the instance as the cycle read it), then the next timer
\* (the progress notification of the 1st and every 50th execution, which
\* changes no state of the worker, is left out)
cycleLimits(S, i) ==
    LET a == S.tasks[i].k[1]
        newCount == S.tasks[i].count
        repeatLimit == S.scope.repeatLimit[a]
        timeLimit == S.scope.timeLimit[a]
    IN  IF repeatLimit # 0 /\ newCount >= repeatLimit
        THEN stopActionOnTab(SetT(S, i, [reason |-> "executions"]), i, "cyc_notify")
        ELSE IF timeLimit # 0 /\ S.now - S.tasks[i].startedAt >= timeLimit
        THEN stopActionOnTab(SetT(S, i, [reason |-> "minutes"]), i, "cyc_notify")
        ELSE scheduleActionOnTab(S, i, "end")

\* the log entry of the abort is stored
cycleLogged(S, i) ==
    LET k == S.tasks[i].k
    IN  End(addLog(S, i, LogEntry(k, FALSE, <<"Max recovery attempts reached",
                                             S.tasks[i].err>>)), i)

\* (global scheduling is on again: for the properties, the cycles whose
\* timers fired while it was off are no longer told apart)
SwitchedOn(S) ==
    [S EXCEPT !.tasks = [j \in TaskIds |-> [@[j] EXCEPT !.firedOff = FALSE]]]

(***************************************************************************)
(* startActionOnTab                                                        *)
(***************************************************************************)
startGotActions(S, i) ==
    IF S.tasks[i].k[1] \notin Actions
    THEN End(SetT(S, i, [res |-> "ACTION_NOT_FOUND"]), i)
    ELSE Await(S, i, "start_getSettings")

startGotSettings(S, i) ==
    IF ~S.globalEnabled
    THEN Await(S, i, "start_saveSettings")
    ELSE Await(S, i, "start_tabsGet")

startSavedSettings(S, i) ==
    Await([SwitchedOn(S) EXCEPT !.globalEnabled = TRUE, !.isInitialized = FALSE],
          i, "start_tabsGet")

startGotTab(S, i) ==
    executeWithRetry(S, i, "addActionInstance", "none", "start_added")

\* (a variant that goes on when addActionInstance threw)
startAdded_IgnoresError(S, i) == scheduleActionOnTab(S, i, "start_badge")

\* addActionInstance returned or threw
startAdded(S, i) ==
    IF S.tasks[i].callRes = "StorageError"
    THEN End(SetT(S, i, [res |-> "START_ERROR"]), i)
    ELSE scheduleActionOnTab([S EXCEPT !.hist.okStreak = Del(@, S.tasks[i].k),
                                       !.hist.dispatched = Del(@, S.tasks[i].k)],
                             i, "start_badge")

\* scheduleActionOnTab returned: refreshBadge, then the result
startScheduled(S, i) == refreshBadge(SetT(S, i, [res |-> "success"]), i, "end")

(***************************************************************************)
(* toggleGlobal and initializeTimers                                       *)
(***************************************************************************)
toggleGotSettings(S, i) ==
    Await(SetT(S, i, [flag |-> ~S.globalEnabled]), i, "tg_saveSettings")

\* (a variant that leaves isInitialized as it is)
toggleSavedSettings_KeepsInitialized(S, i) ==
    LET S1 == [S EXCEPT !.globalEnabled = S.tasks[i].flag]
    IN  IF S.tasks[i].flag
        THEN initializeTimers(S1, i, "end")
        ELSE End([clearAllTimers(S1) EXCEPT !.badge = 0], i)

toggleSavedSettings(S, i) ==
    LET S1 == [S EXCEPT !.globalEnabled = S.tasks[i].flag]
    IN  IF S.tasks[i].flag
        THEN initializeTimers([SwitchedOn(S1) EXCEPT !.isInitialized = FALSE],
                              i, "end")
        ELSE End([clearAllTimers(S1) EXCEPT !.badge = 0], i)

initGotActions(S, i) ==
    Await(SetT(S, i, [snap |-> S.instances]), i, "init_getSettings")

EnabledKeys(m) == {k \in DOMAIN m : m[k].enabled}

initGotSettings(S, i) ==
    LET ks == EnabledKeys(S.tasks[i].snap)
    IN  IF ~S.globalEnabled
        THEN Continue([S EXCEPT !.badge = 0], i, S.tasks[i].ret)
        ELSE IF ks = {}
        THEN Continue([clearAllTimers(S) EXCEPT !.badge = 0], i, S.tasks[i].ret)
        ELSE ScheduleAll(SetT(clearAllTimers(S), i, [pc |-> "init_wait", n |-> 0]),
                         i, ks)

\* a scheduleActionOnTab of initializeTimers resolved: activeCount++, and
\* after the last one the badge is set
initThen(S, c) ==
    LET p == S.tasks[c].parent
        S1 == End([S EXCEPT !.tasks[p].n = @ + 1], c)
    IN  IF Children(S1, p) = {}
        THEN Continue([S1 EXCEPT !.badge = S1.tasks[p].n], p, S1.tasks[p].ret)
        ELSE S1

(***************************************************************************)
(* stopActionOnAllTabs (message STOP_ACTION)                               *)
(***************************************************************************)
\* getActionInstances returned the instances of the action
stopAllGotInstances(S, i) ==
    LET ks == InstancesOf(S.instances, S.tasks[i].k[1])
    IN  IF ks = {} THEN End(S, i)
        ELSE StopOnAllTabs(SetT(S, i, [pc |-> "sa_wait"]), i, ks)

\* one stopActionOnTab of the map has returned
stopAllThen(S, c) ==
    LET p == S.tasks[c].parent
        S1 == End(S, c)
    IN  IF p # 0 /\ Children(S1, p) = {} THEN End(S1, p) ELSE S1

(***************************************************************************)
(* chrome.tabs.onRemoved                                                   *)
(***************************************************************************)
tabClosedGotActions(S, i) ==
    LET t == S.tasks[i].k[2]
        ks == {k \in DOMAIN S.instances : k[2] = t}
    IN  IF ks = {} THEN End(S, i)
        ELSE StopAll(SetT(S, i, [pc |-> "tc_wait"]), i, ks)

\* the log entry of a closed tab's instance is stored
tabClosedLogged(S, c) ==
    LET p == S.tasks[c].parent
        k == S.tasks[c].k
        S1 == End(addLog(S, c, LogEntry(k, FALSE, <<"Tab was closed", "none">>)), c)
    IN  IF p # 0 /\ Children(S1, p) = {} THEN End(S1, p) ELSE S1

\* refreshBadge
badgeGotActions(S, i) ==
    Await(SetT(S, i, [n |-> CountEnabled(S.instances)]), i, "badge_getSettings")

badgeGotSettings(S, i) ==
    Continue([S EXCEPT !.badge = IF S.globalEnabled THEN S.tasks[i].n ELSE 0],
             i, S.tasks[i].ret)

(***************************************************************************)
(* A store call threw a StorageError.                                      *)
(***************************************************************************)
\* the catch of executeAndRescheduleOnTab, "Final cleanup": the registry entry
\* is deleted (its timer is not cleared), then stopActionOnTab
cycleCleanup(S, i) ==
    stopActionOnTab([S EXCEPT !.activeTimers = Del(@, S.tasks[i].k)],
                    i, "cyc_cleaned")

\* the catch of executeAndRescheduleOnTab: the failure is counted, and below
\* MAX_RECOVERY_ATTEMPTS the actions are read again to reschedule
cycleCaught(S, i) ==
    LET k == S.tasks[i].k
        attempts == Get0(S.errorRecoveryAttempts, k) + 1
        S1 == [S EXCEPT !.errorRecoveryAttempts = Put(@, k, attempts)]
    IN  IF attempts < MAX_RECOVERY_ATTEMPTS
        THEN Await(S1, i, "cyc_recGetActions")
        ELSE cycleCleanup(S1, i)

\* getActions returned in the catch: the action is looked up
cycleRecGotActions(S, i) ==
    IF S.tasks[i].k[1] \in Actions
    THEN scheduleActionOnTab(S, i, "cyc_recovered")
    ELSE cycleCleanup(S, i)

\* the catch of a scheduleActionOnTab of initializeTimers: the error is
\* logged, activeCount stays, and after the last call the badge is set
initCaught(S, c) ==
    LET p == S.tasks[c].parent
        S1 == End([S EXCEPT !.tasks[p].threw = @ \cup {S.tasks[c].k}], c)
    IN  IF Children(S1, p) = {}
        THEN Continue([S1 EXCEPT !.badge = S1.tasks[p].n], p, S1.tasks[p].ret)
        ELSE S1

\* a stopActionOnTab awaited with others (Promise.all) threw: the handler
\* that awaits them catches the error and returns; the other calls go on
\* with nobody awaiting them
cleanupThrew(S, c) ==
    LET p == S.tasks[c].parent
        S1 == End(S, c)
    IN  IF p = 0 THEN S1
        ELSE [End(SetT(S1, p, [res |-> "error",
                               threw |-> S.tasks[p].threw \cup {S.tasks[c].k}]), p)
                 EXCEPT !.tasks = [j \in TaskIds |->
                                      IF @[j].parent = p /\ @[j].kind # "idle"
                                      THEN [@[j] EXCEPT !.parent = 0] ELSE @[j]]]

\* scheduleActionOnTab threw (the invalid interval at its beginning, or
\* updateActionInstance at its end): in
\* initializeTimers, in startActionOnTab, in the try of
\* executeAndRescheduleOnTab or in the try of its catch
scheduleThrew(S, i) ==
    CASE S.tasks[i].kind = "schedule" -> initCaught(S, i)
      [] S.tasks[i].kind = "start" -> End(SetT(S, i, [res |-> "START_ERROR"]), i)
      [] S.tasks[i].ret = "cyc_recovered" -> cycleCleanup(S, i)
      [] OTHER -> cycleCaught(S, i)

\* stopActionOnTab threw (removeActionInstance): in a Promise.all, in the try
\* of executeAndRescheduleOnTab, or where nothing catches it before the caller
stopThrew(S, i) ==
    CASE S.tasks[i].kind = "cleanup" -> cleanupThrew(S, i)
      [] S.tasks[i].kind = "cycle" /\ S.tasks[i].ret # "cyc_cleaned" ->
             cycleCaught(S, i)
      [] OTHER -> End(SetT(S, i, [res |-> "error"]), i)

(***************************************************************************)
(* Where a task goes on when the call it awaited returns or throws.        *)
(***************************************************************************)
Continue(S, i, label) ==
    CASE label = "end" -> End(S, i)
      [] label = "sched_ret" ->
             IF S.tasks[i].callRes = "StorageError" THEN scheduleThrew(S, i)
             ELSE Continue(S, i, S.tasks[i].ret)
      [] label = "stop_removed" ->
             IF S.tasks[i].callRes = "StorageError" THEN stopThrew(S, i)
             ELSE refreshBadge(S, i, S.tasks[i].ret)
      [] label = "start_added" -> startAdded(S, i)
      [] label = "start_badge" -> startScheduled(S, i)
      [] label = "cyc_limits" ->
             IF S.tasks[i].callRes = "StorageError" THEN cycleCaught(S, i)
             ELSE cycleLimits(S, i)
      [] label = "cyc_recovered" -> End(S, i)
      [] label = "cyc_cleaned" -> End(S, i)
      [] label = "cyc_notify" -> notifyCompletion(S, i)
      [] label = "cyc_abortLog" -> Await(S, i, "cyc_addLog")
      [] label = "init_then" -> initThen(S, i)
      [] label = "tc_then" -> Await(S, i, "tc_addLog")
      [] label = "sa_then" -> stopAllThen(S, i)

(***************************************************************************)
(* The steps of the system.                                                *)
(***************************************************************************)
\* a handler of the kind may begin: the handlers of the kinds in scope.alone
\* run with no other handler in flight
CanBegin(kind) ==
    /\ budget > 0
    /\ IdleSlots(State) # {}
    /\ \A i \in TaskIds : tasks[i].kind \notin scope.alone
    /\ kind \in scope.alone => \A i \in TaskIds : tasks[i].kind = "idle"

Begin(kind, k) == NewTask([State EXCEPT !.budget = @ - 1], kind, k, 0)

\* the request task i awaits at pc has its result
Ready(i, pc) ==
    /\ tasks[i].kind # "idle"
    /\ tasks[i].pc = pc
    /\ tasks[i].waitOn = 0
    /\ (scope.fifo /\ pc \in StoragePcs) => (ioQ # << >> /\ Head(ioQ) = i)

\* message START_ACTION
StartAction(k) ==
    /\ CanBegin("start")
    /\ Commit(Await(Begin("start", k), FreeSlot(State), "start_getActions"))

\* message STOP_ACTION_ON_TAB
StopAction(k) ==
    /\ CanBegin("stop")
    /\ Commit(stopActionOnTab(Begin("stop", k), FreeSlot(State), "end"))

\* message TOGGLE_GLOBAL
ToggleGlobal ==
    /\ CanBegin("toggle")
    /\ Commit(Await(Begin("toggle", NoKey), FreeSlot(State), "tg_getSettings"))

\* a tab is closed, and chrome.tabs.onRemoved is delivered later
TabVanishes(t) ==
    /\ scope.lateEvents
    /\ budget > 0
    /\ t \in tabsOpen
    /\ t \in {k[2] : k \in scope.keys}
    /\ Commit([State EXCEPT !.tabsOpen = @ \ {t}, !.removedTabs = @ \cup {t}])

\* chrome.tabs.onRemoved is delivered: for a tab that is closed now, or for
\* one that was closed before
TabClosed(t) ==
    /\ CanBegin("tabClosed")
    /\ (~scope.lateEvents /\ t \in tabsOpen) \/ t \in removedTabs
    /\ t \in {k[2] : k \in scope.keys}
    /\ Commit(Await([Begin("tabClosed", <<"none", t>>)
                        EXCEPT !.tabsOpen = @ \ {t}, !.removedTabs = @ \ {t}],
                    FreeSlot(State), "tc_getActions"))

\* time passes (between two handlers, where handlers run one at a time)
Tick ==
    /\ now < MaxTime
    /\ scope.alone # {} => \A i \in TaskIds : tasks[i].kind = "idle"
    /\ Commit([State EXCEPT !.now = @ + 1])

\* message REFRESH_TIMERS
RefreshTimers ==
    /\ scope.refresh
    /\ CanBegin("refresh")
    /\ Commit(initializeTimers([Begin("refresh", NoKey) EXCEPT !.isInitialized = FALSE],
                               FreeSlot(State), "end"))

\* the popup imports a configuration: importData stores the actions of the
\* file (here the stored actions, as exported) and its settings
importData(S, enabled) ==
    [S EXCEPT !.globalEnabled = enabled, !.budget = @ - 1]

ImportData(enabled) ==
    /\ scope.refresh
    /\ CanBegin("import")
    /\ Commit(importData(State, enabled))

\* (a timer set with setInterval: it stays armed when it fires)
TimerFires_Interval(x) ==
    /\ CanBegin("cycle")
    /\ x \in armed
    /\ x.k \in scope.keys
    /\ Commit(Await(SetT(Begin("cycle", x.k), FreeSlot(State),
                         [firedOff |-> scope.history /\ ~globalEnabled]),
                    FreeSlot(State), "cyc_getActions"))

\* a timer fires: its callback calls executeAndRescheduleOnTab
\* (firedOff: the stored global flag was off when the timer fired)
TimerFires(x) ==
    /\ CanBegin("cycle")
    /\ x \in armed
    /\ x.k \in scope.keys
    /\ Commit(Await(SetT([Begin("cycle", x.k) EXCEPT !.armed = @ \ {x}],
                         FreeSlot(State),
                         [firedOff |-> scope.history /\ ~globalEnabled]),
                    FreeSlot(State), "cyc_getActions"))

\* a timer fires while global scheduling is off, after the requests of the
\* behaviour
LateTimerFires(x) ==
    /\ budget = 0
    /\ ~globalEnabled
    /\ IdleSlots(State) # {}
    /\ x \in armed
    /\ Commit(Await(SetT([NewTask(State, "cycle", x.k, 0) EXCEPT !.armed = @ \ {x}],
                         FreeSlot(State), [firedOff |-> TRUE]),
                    FreeSlot(State), "cyc_getActions"))

\* message STOP_ACTION
StopActionAll(a) ==
    /\ CanBegin("stopAll")
    /\ Commit(Await(Begin("stopAll", <<a, 0>>), FreeSlot(State), "sa_getActions"))

StopAllGetInstances(i) ==
    /\ Ready(i, "sa_getActions")
    /\ Cardinality(IdleSlots(State)) >=
          Cardinality(InstancesOf(instances, tasks[i].k[1]))
    /\ Commit(stopAllGotInstances(Release(State, i), i))

\* a store function is called from outside the handlers
StoreCall(name, k) ==
    /\ CanBegin("call")
    /\ Commit(executeWithRetry(SetT(Begin("call", k), FreeSlot(State), [count |-> 1]),
                               FreeSlot(State), name, "executionCount", "end"))

CycleGetActions(i) ==
    Ready(i, "cyc_getActions") /\ Commit(cycleGotActions(Release(State, i), i))
CycleGetSettings(i) ==
    Ready(i, "cyc_getSettings") /\ Commit(cycleGotSettings(Release(State, i), i))
CycleTabsGet(i, url) ==
    Ready(i, "cyc_tabsGet") /\ Commit(cycleGotTab(State, i, url))
DispatchSucceeds(i) ==
    Ready(i, "cyc_execute") /\ Commit(cycleExecuted(State, i))
DispatchFails(i, e) ==
    Ready(i, "cyc_execute") /\ Commit(cycleFailed(State, i, e))
CycleAddLog(i) ==
    Ready(i, "cyc_addLog") /\ Commit(addLogReads(Release(State, i), i))
CycleSetLogs(i) ==
    Ready(i, "cyc_setLogs") /\ Commit(cycleLogged(Release(State, i), i))
StartGetActions(i) ==
    Ready(i, "start_getActions") /\ Commit(startGotActions(Release(State, i), i))
StartGetSettings(i) ==
    Ready(i, "start_getSettings") /\ Commit(startGotSettings(Release(State, i), i))
StartSaveSettings(i) ==
    Ready(i, "start_saveSettings") /\ Commit(startSavedSettings(Release(State, i), i))
StartTabsGet(i) ==
    Ready(i, "start_tabsGet") /\ Commit(startGotTab(State, i))
ToggleGetSettings(i) ==
    Ready(i, "tg_getSettings") /\ Commit(toggleGotSettings(Release(State, i), i))
ToggleSaveSettings(i) ==
    Ready(i, "tg_saveSettings") /\ Commit(toggleSavedSettings(Release(State, i), i))
InitGetActions(i) ==
    Ready(i, "init_getActions") /\ Commit(initGotActions(Release(State, i), i))
InitGetSettings(i) ==
    /\ Ready(i, "init_getSettings")
    /\ globalEnabled =>
          Cardinality(IdleSlots(State)) >= Cardinality(EnabledKeys(tasks[i].snap))
    /\ Commit(initGotSettings(Release(State, i), i))
TabClosedGetActions(i) ==
    /\ Ready(i, "tc_getActions")
    /\ Cardinality(IdleSlots(State)) >=
          Cardinality({k \in DOMAIN instances : k[2] = tasks[i].k[2]})
    /\ Commit(tabClosedGotActions(Release(State, i), i))
TabClosedAddLog(i) ==
    Ready(i, "tc_addLog") /\ Commit(addLogReads(Release(State, i), i))
TabClosedSetLogs(i) ==
    Ready(i, "tc_setLogs") /\ Commit(tabClosedLogged(Release(State, i), i))
BadgeGetActions(i) ==
    Ready(i, "badge_getActions") /\ Commit(badgeGotActions(Release(State, i), i))
BadgeGetSettings(i) ==
    Ready(i, "badge_getSettings") /\ Commit(badgeGotSettings(Release(State, i), i))
StoreRead(i) ==
    Ready(i, "rmw_read") /\ Commit(OperationReads(Release(State, i), i))
StoreWrite(i) ==
    Ready(i, "rmw_write") /\ Commit(saveActionsDone(Release(State, i), i))
RetryDelay(i) ==
    Ready(i, "rmw_delay") /\ Commit(retryDelayOver(State, i))
CycleRecGetActions(i) ==
    Ready(i, "cyc_recGetActions") /\ Commit(cycleRecGotActions(Release(State, i), i))

\* the caller of a scheduleActionOnTab that threw "Invalid interval" resumes
\* from its await
ScheduleThrows(i) ==
    Ready(i, "sched_thrown") /\ Commit(scheduleThrew(State, i))

\* Math.random: the value the next call returns
Draw(d) ==
    /\ scope.randomDraws
    /\ d # scope.draw
    /\ Commit([State EXCEPT !.scope.draw = d])

\* chrome.storage fails in one attempt of an instance operation, at its read
\* or at its write: the operation throws in this attempt
AttemptFails(i) ==
    /\ scope.storeFails
    /\ tasks[i].pc \in {"rmw_read", "rmw_write"}
    /\ Ready(i, tasks[i].pc)
    /\ Commit(OperationThrows(Release(State, i), i, "Error"))

\* chrome.storage fails in an instance operation, at its read or at its
\* write, in every attempt of executeWithRetry: the operation throws a
\* StorageError after the last attempt
StoreFails(i) ==
    /\ scope.storeFails
    /\ budget > 0
    /\ tasks[i].pc \in {"rmw_read", "rmw_write"}
    /\ Ready(i, tasks[i].pc)
    /\ Commit(SettleCall(SetT([Release(State, i) EXCEPT !.budget = @ - 1], i,
                              [opErr |-> "Error", attempt |-> MAX_RETRY_ATTEMPTS]),
                         i, "StorageError"))

\* the steps of the handlers in flight
TaskStep ==
    \E i \in TaskIds :
        \/ CycleGetActions(i)
        \/ CycleGetSettings(i)
        \/ \E url \in scope.urls : CycleTabsGet(i, url)
        \/ DispatchSucceeds(i)
        \/ \E e \in scope.errors : DispatchFails(i, e)
        \/ CycleAddLog(i)
        \/ CycleSetLogs(i)
        \/ StartGetActions(i)
        \/ StartGetSettings(i)
        \/ StartSaveSettings(i)
        \/ StartTabsGet(i)
        \/ ToggleGetSettings(i)
        \/ ToggleSaveSettings(i)
        \/ InitGetActions(i)
        \/ InitGetSettings(i)
        \/ TabClosedGetActions(i)
        \/ TabClosedAddLog(i)
        \/ TabClosedSetLogs(i)
        \/ BadgeGetActions(i)
        \/ BadgeGetSettings(i)
        \/ StoreRead(i)
        \/ StoreWrite(i)

\* the steps of the world around the handlers
Begins ==
    \/ \E k \in scope.keys : StartAction(k)
    \/ \E k \in scope.keys : StopAction(k)
    \/ ToggleGlobal
    \/ \E t \in TabIds : TabClosed(t)
    \/ \E x \in armed : TimerFires(x)

\* the service worker starts on the stored actions sc.store: the listener of
\* chrome.runtime.onStartup has called initializeTimers, which set
\* isInitialized and awaits getActions
Startup ==
    Merge(Idle, [kind |-> "startup", pc |-> "init_getActions", ret |-> "end"])

InitWith(sc, ops) ==
    /\ instances = sc.store
    /\ globalEnabled = TRUE
    /\ logs = << >>
    /\ activeTimers = EmptyMap
    /\ armed = {}
    /\ errorRecoveryAttempts = EmptyMap
    /\ isInitialized = sc.worker
    /\ badge = 0
    /\ tabsOpen = {k[2] : k \in sc.keys \cup DOMAIN sc.store}
    /\ removedTabs = {}
    /\ now = 0
    /\ notifications = << >>
    /\ pendingOperations =
          [n \in OpNames |-> IF sc.worker /\ n = "getActions" THEN 1 ELSE 0]
    /\ waitQ = << >>
    /\ ioQ = IF sc.worker /\ sc.fifo THEN <<1>> ELSE << >>
    /\ tasks = [i \in TaskIds |-> IF sc.worker /\ i = 1 THEN Startup ELSE Idle]
    /\ budget = ops
    /\ scope = With(Plain, sc)
    /\ lastEnd = NoEnd
    /\ intervalMs = -1
    /\ hist = [streak |-> EmptyMap, abortStreak |-> EmptyMap, okStreak |-> EmptyMap,
               dispatched |-> EmptyMap]

StoredOn(a, tabs) == [k \in {a} \X tabs |-> NewInstance]

(***************************************************************************)
(* Spec: the service worker starts with one stored instance; the handlers  *)
(* of two keys interleave at their awaits.                                 *)
(***************************************************************************)
MainKeys == {<<"a1", 1>>, <<"a2", 1>>}

Init ==
    InitWith([keys |-> MainKeys, store |-> StoredOn("a1", {1}), worker |-> TRUE,
              alone |-> {}, fifo |-> TRUE,
              maxTasks |-> MaxTasks, history |-> FALSE, errors |-> {"e1"}],
             MaxOps)

Next == Begins \/ TaskStep

Spec == Init /\ [][Next]_vars

Quiescent == \A i \in TaskIds : tasks[i].kind = "idle"

(***************************************************************************)
(* SpecStops: timer fires, execution cycles, stop requests and tab         *)
(* closures interleaved; the handlers that arm timers for instances they   *)
(* have read (startup, start request, global toggle) run alone.            *)
(***************************************************************************)
InitStops ==
    InitWith([keys |-> MainKeys, store |-> StoredOn("a1", {1}), worker |-> TRUE,
              alone |-> {"startup", "start", "toggle"}, fifo |-> TRUE,
              maxTasks |-> MaxTasks, history |-> FALSE, errors |-> {"e1"}],
             MaxOps)

SpecStops == InitStops /\ [][Next]_vars

(***************************************************************************)
(* SpecSeq: the service worker starts with an action that has instances on *)
(* MAX_INSTANCES_PER_ACTION tabs; every handler runs to its end before the *)
(* next begins.  The requests are for a tab among the instances and for a  *)
(* sixth tab.                                                              *)
(***************************************************************************)
SeqKeys == {<<"a1", 1>>, <<"a1", MAX_INSTANCES_PER_ACTION + 1>>}

InitSeq ==
    InitWith([keys |-> SeqKeys,
              store |-> StoredOn("a1", 1..MAX_INSTANCES_PER_ACTION),
              worker |-> TRUE, alone |-> Kinds, fifo |-> TRUE,
              maxTasks |-> MAX_INSTANCES_PER_ACTION + 1, history |-> TRUE,
              errors |-> Errors],
             MaxSeqOps)

NextSeq == Begins \/ TaskStep \/ \E i \in TaskIds : RetryDelay(i)

SpecSeq == InitSeq /\ [][NextSeq]_vars

(***************************************************************************)
(* SpecStore: the instance store alone, holding an action with instances   *)
(* on four tabs; addActionInstance, removeActionInstance and               *)
(* updateActionInstance are called for three tabs and for an unknown       *)
(* action, and the calls overlap.                                          *)
(***************************************************************************)
StoreKeys == ({"a1"} \X {4, 5, 6}) \cup {<<UnknownAction, 5>>}

InitStore ==
    InitWith([keys |-> StoreKeys, store |-> StoredOn("a1", 1..4),
              worker |-> FALSE, alone |-> {}, fifo |-> FALSE,
              maxTasks |-> MaxTasks, history |-> TRUE, errors |-> {}],
             MaxCalls)

NextStore ==
    \/ \E name \in InstanceOps, k \in scope.keys : StoreCall(name, k)
    \/ \E i \in TaskIds : StoreRead(i)
    \/ \E i \in TaskIds : StoreWrite(i)
    \/ \E i \in TaskIds : RetryDelay(i)

SpecStore == InitStore /\ [][NextStore]_vars

(***************************************************************************)
(* SpecLimits: two actions with an instance each on one tab; the first has *)
(* a repeat limit, a time limit and a URL filter, the second a time limit  *)
(* only.  The tab shows a page the filter matches, one it does not match,  *)
(* a browser page, or no URL; the tab may be closed before its onRemoved   *)
(* event is delivered.  Every handler runs to its end before the next      *)
(* begins.                                                                 *)
(***************************************************************************)
\* the limits of the actions: executions, and time in units of the clock
RepeatLimit == 2
TimeLimit == 1

LimitUrls ==
    {PageUrl, <<"https://", "c">>, <<"chrome://", "a">>, << >>}

InitLimits ==
    InitWith([keys |-> MainKeys,
              store |-> StoredOn("a1", {1}) @@ StoredOn("a2", {1}),
              worker |-> TRUE, alone |-> Kinds, fifo |-> TRUE,
              maxTasks |-> MaxTasks, history |-> TRUE, errors |-> {"e1"},
              repeatLimit |-> [a \in Actions |-> IF a = "a1" THEN RepeatLimit ELSE 0],
              timeLimit |-> [a \in Actions |-> TimeLimit],
              urlFilter |-> [a \in Actions |->
                                IF a = "a1" THEN << <<"*.", "a">> >> ELSE << >>],
              urls |-> LimitUrls, lateEvents |-> TRUE],
             MaxLimitOps)

NextLimits ==
    \/ Begins
    \/ TaskStep
    \/ Tick
    \/ \E t \in TabIds : TabVanishes(t)

SpecLimits == InitLimits /\ [][NextLimits]_vars

(***************************************************************************)
(* SpecClose: three actions have an instance on tab 1 and two of them one  *)
(* on tab 2; the worker starts and arms their timers, then instances are   *)
(* stopped and the tabs are closed, one handler running to its end before  *)
(* the next begins.  The tab-closed handler stops the instances of its tab *)
(* in parallel.                                                            *)
(***************************************************************************)
CloseKeys == (Actions \X {1}) \cup ({"a1", "a2"} \X {2})

InitClose ==
    InitWith([keys |-> CloseKeys,
              store |-> [k \in CloseKeys |-> NewInstance],
              worker |-> TRUE, alone |-> Kinds, fifo |-> TRUE,
              maxTasks |-> MAX_INSTANCES_PER_ACTION + 1, history |-> TRUE,
              errors |-> {}],
             MaxCloses)

NextClose ==
    \/ \E t \in TabIds : TabClosed(t)
    \/ \E k \in scope.keys : StopAction(k)
    \/ \E i \in TaskIds :
          \/ InitGetActions(i)
          \/ InitGetSettings(i)
          \/ TabClosedGetActions(i)
          \/ TabClosedAddLog(i)
          \/ TabClosedSetLogs(i)
          \/ BadgeGetActions(i)
          \/ BadgeGetSettings(i)
          \/ StoreRead(i)
          \/ StoreWrite(i)

SpecClose == InitClose /\ [][NextClose]_vars

(***************************************************************************)
(* SpecRefresh: as Spec, with every handler running to its end before the  *)
(* next begins, and with the popup importing a configuration and asking    *)
(* for a re-initialization (REFRESH_TIMERS).                               *)
(***************************************************************************)
InitRefresh ==
    InitWith([keys |-> MainKeys, store |-> StoredOn("a1", {1}), worker |-> TRUE,
              alone |-> Kinds, fifo |-> TRUE,
              maxTasks |-> MaxTasks, history |-> TRUE, errors |-> {"e1"},
              refresh |-> TRUE],
             MaxOps)

NextRefresh ==
    \/ Begins
    \/ TaskStep
    \/ RefreshTimers
    \/ \E enabled \in BOOLEAN : ImportData(enabled)

SpecRefresh == InitRefresh /\ [][NextRefresh]_vars

(***************************************************************************)
(* SpecOff: one instance; start and stop requests, global toggles, tab     *)
(* closures and execution cycles interleave at their awaits.  Every        *)
(* awaited call returns in the end, and a timer that stays armed fires in  *)
(* the end, also after the last request of the behaviour when global       *)
(* scheduling is off.                                                      *)
(***************************************************************************)
OffKeys == {<<"a1", 1>>}

InitOff ==
    InitWith([keys |-> OffKeys, store |-> StoredOn("a1", {1}), worker |-> TRUE,
              alone |-> {}, fifo |-> TRUE,
              maxTasks |-> MaxTasks, history |-> TRUE, errors |-> {"e1"}],
             MaxOffOps)

TimerFiresInTheEnd == \E x \in armed : TimerFires(x) \/ LateTimerFires(x)

\* every awaited call returns in the end: no handler stays at an await for
\* ever.  (WF_vars(TaskStep) written out, with "a handler is in flight" for
\* ENABLED <<TaskStep>>_vars: the program puts no bound on the handlers in
\* flight, so a handler held back only by maxTasks is not held back for
\* ever.)
AwaitsReturnInTheEnd == []<>Quiescent \/ []<><<TaskStep>>_vars

NextOff ==
    \/ Begins
    \/ TaskStep
    \/ \E x \in armed : LateTimerFires(x)

SpecOff ==
    /\ InitOff
    /\ [][NextOff]_vars
    /\ AwaitsReturnInTheEnd
    /\ WF_vars(TimerFiresInTheEnd)

(***************************************************************************)
(* SpecFail: the service worker starts with an action that has instances   *)
(* on two tabs; every handler runs to its end before the next begins, and  *)
(* chrome.storage may fail in the instance operations.                     *)
(***************************************************************************)
FailKeys == {<<"a1", 1>>, <<"a1", 2>>}

InitFail ==
    InitWith([keys |-> FailKeys, store |-> StoredOn("a1", {1, 2}),
              worker |-> TRUE, alone |-> Kinds, fifo |-> TRUE,
              maxTasks |-> MaxTasks, history |-> TRUE, errors |-> {"e1"},
              storeFails |-> TRUE],
             MaxFailOps)

NextFail ==
    \/ Begins
    \/ TaskStep
    \/ \E i \in TaskIds : StoreFails(i)
    \/ \E i \in TaskIds : CycleRecGetActions(i)

SpecFail == InitFail /\ [][NextFail]_vars

(***************************************************************************)
(* SpecRetry: the instance store alone, as in SpecStore, with calls that   *)
(* overlap and a chrome.storage that may fail in any attempt of an         *)
(* operation.  A call that has begun goes on until it returns: a pending   *)
(* request is answered and a retry delay ends.                             *)
(***************************************************************************)
InitRetry ==
    InitWith([keys |-> StoreKeys, store |-> StoredOn("a1", 1..4),
              worker |-> FALSE, alone |-> {}, fifo |-> FALSE,
              maxTasks |-> MaxTasks, history |-> TRUE, errors |-> {},
              storeFails |-> TRUE],
             MaxRetryCalls)

StoreStep ==
    \E i \in TaskIds :
        \/ StoreRead(i)
        \/ StoreWrite(i)
        \/ RetryDelay(i)
        \/ AttemptFails(i)

NextRetry ==
    \/ \E name \in InstanceOps, k \in scope.keys : StoreCall(name, k)
    \/ StoreStep

CallsGoOn == []<>Quiescent \/ []<><<StoreStep>>_vars

SpecRetry == InitRetry /\ [][NextRetry]_vars /\ CallsGoOn

(***************************************************************************)
(* SpecRace: one key, the service worker starts with its instance stored;  *)
(* timer fires, start requests, REFRESH_TIMERS and global toggles          *)
(* interleave at their awaits.  The action has no repeat limit, or the     *)
(* repeat limit RaceLimit.                                                 *)
(***************************************************************************)
RaceKeys == {<<"a1", 1>>}
RaceLimit == 1

InitRace ==
    \E n \in {0, RaceLimit} :
        InitWith([keys |-> RaceKeys, store |-> StoredOn("a1", {1}), worker |-> TRUE,
                  alone |-> {}, fifo |-> TRUE,
                  maxTasks |-> MaxTasks, history |-> TRUE, errors |-> {},
                  refresh |-> TRUE,
                  repeatLimit |-> [a \in Actions |-> IF a = "a1" THEN n ELSE 0]],
                 MaxRaceOps)

NextRace ==
    \/ \E k \in scope.keys : StartAction(k)
    \/ \E x \in armed : TimerFires(x)
    \/ RefreshTimers
    \/ ToggleGlobal
    \/ \E i \in TaskIds :
          \/ CycleGetActions(i)
          \/ CycleGetSettings(i)
          \/ \E url \in scope.urls : CycleTabsGet(i, url)
          \/ DispatchSucceeds(i)
          \/ StartGetActions(i)
          \/ StartGetSettings(i)
          \/ StartSaveSettings(i)
          \/ StartTabsGet(i)
          \/ ToggleGetSettings(i)
          \/ ToggleSaveSettings(i)
          \/ InitGetActions(i)
          \/ InitGetSettings(i)
          \/ BadgeGetActions(i)
          \/ BadgeGetSettings(i)
          \/ StoreRead(i)
          \/ StoreWrite(i)

SpecRace == InitRace /\ [][NextRace]_vars

(***************************************************************************)
(* SpecDraw: one key of an action with a randomized delay of 50 to 150     *)
(* milliseconds; the service worker starts with its instance stored, every *)
(* handler runs to its end before the next begins, every store call        *)
(* succeeds, and Math.random returns any of its values.                    *)
(***************************************************************************)
InitDraw ==
    \E d \in Draws :
        InitWith([keys |-> RaceKeys, store |-> StoredOn("a1", {1}), worker |-> TRUE,
                  alone |-> Kinds, fifo |-> TRUE,
                  maxTasks |-> MaxTasks, history |-> TRUE, errors |-> {},
                  action |-> AboutEveryTenth, draw |-> d, randomDraws |-> TRUE],
                 MaxDrawOps)

NextDraw ==
    \/ \E k \in scope.keys : StartAction(k)
    \/ \E x \in armed : TimerFires(x)
    \/ \E d \in Draws : Draw(d)
    \/ \E i \in TaskIds :
          \/ ScheduleThrows(i)
          \/ CycleRecGetActions(i)
          \/ CycleGetActions(i)
          \/ CycleGetSettings(i)
          \/ \E url \in scope.urls : CycleTabsGet(i, url)
          \/ DispatchSucceeds(i)
          \/ StartGetActions(i)
          \/ StartGetSettings(i)
          \/ StartTabsGet(i)
          \/ InitGetActions(i)
          \/ InitGetSettings(i)
          \/ BadgeGetActions(i)
          \/ BadgeGetSettings(i)
          \/ StoreRead(i)
          \/ StoreWrite(i)

SpecDraw == InitDraw /\ [][NextDraw]_vars

(***************************************************************************)
(* SpecHang: instances on two tabs, handlers interleaved, the store        *)
(* answering in any order; chrome.scripting.executeScript never answers    *)
(* for the tab of HungKey, so that the cycle of that key stays at its      *)
(* await of executeAction for ever.  Every other awaited call returns in   *)
(* the end.                                                                *)
(***************************************************************************)
HungKey == <<"a1", 1>>

Hung(i) == tasks[i].pc = "cyc_execute" /\ tasks[i].k = HungKey

\* no handler in flight but the hung cycles
Settled == \A i \in TaskIds : tasks[i].kind = "idle" \/ Hung(i)

InitHang ==
    InitWith([keys |-> FailKeys, store |-> StoredOn("a1", {1, 2}), worker |-> TRUE,
              alone |-> {}, fifo |-> FALSE,
              maxTasks |-> MaxTasks, history |-> TRUE, errors |-> {}],
             MaxHangOps)

HangStep ==
    \E i \in TaskIds :
        \/ CycleGetActions(i)
        \/ CycleGetSettings(i)
        \/ \E url \in scope.urls : CycleTabsGet(i, url)
        \/ tasks[i].k # HungKey /\ DispatchSucceeds(i)
        \/ InitGetActions(i)
        \/ InitGetSettings(i)
        \/ StoreRead(i)
        \/ StoreWrite(i)

NextHang ==
    \/ \E x \in armed : TimerFires(x)
    \/ HangStep

OthersReturnInTheEnd == []<>Settled \/ []<><<HangStep>>_vars

SpecHang == InitHang /\ [][NextHang]_vars /\ OthersReturnInTheEnd

(***************************************************************************)
(* SpecInterval: calculateInterval is called once, on any settings of an   *)
(* action within the bounds and any draw of the random source.  The        *)
(* settings are those whose range, in milliseconds, stays below 2^31.      *)
(***************************************************************************)
Intervals == {1, 5, 25}
RandomizeValues == {0, 1, 2, 1000}
MaxRangeMs == 2000000000

ActionSettings ==
    {c \in [interval : Intervals, timeUnit : TimeUnits, randomize : BOOLEAN,
            randomizeMin : RandomizeValues, randomizeMax : RandomizeValues] :
        /\ c.randomizeMin <= MaxRangeMs \div Multiplier(c.timeUnit)
        /\ c.randomizeMax <= MaxRangeMs \div Multiplier(c.timeUnit)}

InitInterval ==
    \E c \in ActionSettings, d \in Draws :
        InitWith([keys |-> {}, store |-> EmptyMap, worker |-> FALSE,
                  alone |-> Kinds, fifo |-> TRUE,
                  maxTasks |-> MaxTasks, history |-> FALSE, errors |-> {},
                  action |-> c, draw |-> d],
                 0)

CalculateInterval ==
    /\ intervalMs = -1
    /\ Commit([State EXCEPT !.intervalMs = calculateInterval(scope.action, scope.draw)])

NextInterval == CalculateInterval

SpecInterval == InitInterval /\ [][NextInterval]_vars

(***************************************************************************)
(* SpecStopAll: the service worker starts on an action with 1 to           *)
(* MAX_INSTANCES_PER_ACTION stored instances and arms their timers; then   *)
(* STOP_ACTION requests for the action are handled, one after the other.   *)
(***************************************************************************)
InitStopAll ==
    \E n \in 1..MAX_INSTANCES_PER_ACTION :
        InitWith([keys |-> {"a1"} \X (1..MAX_INSTANCES_PER_ACTION),
                  store |-> StoredOn("a1", 1..n),
                  worker |-> TRUE, alone |-> Kinds, fifo |-> TRUE,
                  maxTasks |-> MAX_INSTANCES_PER_ACTION + 1, history |-> TRUE,
                  errors |-> {}],
                 MaxStopAlls)

NextStopAll ==
    \/ StopActionAll("a1")
    \/ \E i \in TaskIds :
          \/ InitGetActions(i)
          \/ InitGetSettings(i)
          \/ StopAllGetInstances(i)
          \/ BadgeGetActions(i)
          \/ BadgeGetSettings(i)
          \/ StoreRead(i)
          \/ StoreWrite(i)

SpecStopAll == InitStopAll /\ [][NextStopAll]_vars

(***************************************************************************)
(* C1: whenever no handler is in flight, the keys of activeTimers are the  *)
(* keys whose stored instance has enabled = true.                          *)
(***************************************************************************)
C1_TimersEqualEnabled ==
    Quiescent => DOMAIN activeTimers = EnabledKeys(instances)

(***************************************************************************)
(* C2: under any interleaving of timer fires, execution cycles, stop       *)
(* requests and tab closures, every key of activeTimers has a stored       *)
(* instance with enabled = true.                                           *)
(***************************************************************************)
C2_TimersSubsetEnabled ==
    \A k \in DOMAIN activeTimers : k \in DOMAIN instances /\ instances[k].enabled

(***************************************************************************)
(* C3: every armed timer is the one activeTimers records for its key, so   *)
(* a key has at most one armed timer and a disarmed timer never fires.     *)
(***************************************************************************)
C3_ArmedIsRecorded ==
    \A x \in armed : x.k \in DOMAIN activeTimers /\ activeTimers[x.k] = x.id

(***************************************************************************)
(* C4: when a stop request returns, and no execution cycle (indeed no      *)
(* other handler) of its key was in flight while it ran, the key has no    *)
(* timer entry, no recovery counter and no stored instance.                *)
(***************************************************************************)
Returns(i, kind) == tasks[i].kind = kind /\ tasks'[i].kind = "idle"

C4_StopLeavesNothing ==
    [][\A i \in TaskIds :
          (Returns(i, "stop") /\ ~tasks[i].overlap)
              => LET k == tasks[i].k
                 IN  /\ k \notin DOMAIN activeTimers'
                     /\ k \notin DOMAIN errorRecoveryAttempts'
                     /\ k \notin DOMAIN instances']_vars

(***************************************************************************)
(* C5: a stop request for a key right after a stop request for the same    *)
(* key raises no error, appends no log entry, and leaves activeTimers,     *)
(* errorRecoveryAttempts and the stored instances as it found them.        *)
(***************************************************************************)
C5_SecondStopChangesNothing ==
    [][\A i \in TaskIds :
          (Returns(i, "stop") /\ lastEnd.kind = "stop" /\ lastEnd.k = tasks[i].k)
              => /\ ~lastEnd'.storeErr
                 /\ logs' = tasks[i].before.logs
                 /\ activeTimers' = tasks[i].before.activeTimers
                 /\ errorRecoveryAttempts' = tasks[i].before.errorRecoveryAttempts
                 /\ instances' = tasks[i].before.instances]_vars

\* two stop requests for the key of a stored instance have returned in a row
C5_TwoStopsReturned ==
    /\ Quiescent
    /\ lastEnd.kind = "stop" /\ lastEnd.prevKind = "stop"
    /\ lastEnd.prevK = lastEnd.k
    /\ lastEnd.k \in DOMAIN scope.store
    /\ lastEnd.k \notin DOMAIN instances

(***************************************************************************)
(* C6: in every state of the store, however addActionInstance,             *)
(* removeActionInstance and updateActionInstance calls followed or         *)
(* overlapped each other, each action has at most                          *)
(* MAX_INSTANCES_PER_ACTION instances.                                     *)
(***************************************************************************)
C6_AtMostFiveInstances ==
    \A a \in Actions :
        Cardinality(InstancesOf(instances, a)) <= MAX_INSTANCES_PER_ACTION

\* an action is at the limit and an addActionInstance call for one more tab
\* has been rejected
C6_LimitReachedAndAddRejected ==
    /\ Cardinality(InstancesOf(instances, "a1")) = MAX_INSTANCES_PER_ACTION
    /\ lastEnd.kind = "call" /\ lastEnd.k[1] = "a1"
    /\ lastEnd.opErr = "ValidationError" /\ lastEnd.callRes = "StorageError"
    /\ lastEnd.k \notin DOMAIN instances

(***************************************************************************)
(* C7: a start request for a tab when the action has instances on          *)
(* MAX_INSTANCES_PER_ACTION other tabs returns an error, adds no instance  *)
(* and arms no timer for the key; a start request for a tab that is one of *)
(* the MAX_INSTANCES_PER_ACTION instances succeeds and arms a timer.       *)
(***************************************************************************)
C7_StartAtTheLimit ==
    [][\A i \in TaskIds :
          (/\ Returns(i, "start")
           /\ Cardinality(InstancesOf(tasks[i].before.instances, tasks[i].k[1]))
                  = MAX_INSTANCES_PER_ACTION)
              => LET k == tasks[i].k
                 IN  IF k \notin DOMAIN tasks[i].before.instances
                     THEN /\ lastEnd'.res = "START_ERROR"
                          /\ instances' = tasks[i].before.instances
                          /\ k \notin DOMAIN activeTimers'
                          /\ \A x \in armed' : x.k # k
                     ELSE /\ lastEnd'.res = "success"
                          /\ k \in DOMAIN activeTimers'
                          /\ [id |-> activeTimers'[k], k |-> k] \in armed']_vars

\* a start request for a sixth tab has returned its error
C7_SixthStartRejected ==
    /\ Quiescent
    /\ lastEnd.kind = "start" /\ lastEnd.res = "START_ERROR"
    /\ lastEnd.k \notin DOMAIN instances
    /\ Cardinality(InstancesOf(instances, lastEnd.k[1])) = MAX_INSTANCES_PER_ACTION

(***************************************************************************)
(* C8: a store call whose operation throws a ValidationError (a sixth      *)
(* instance, an unknown action) ends on its first attempt, and with that   *)
(* ValidationError.                                                        *)
(***************************************************************************)
C8_ValidationErrorNotRetried ==
    (lastEnd.kind = "call" /\ lastEnd.opErr = "ValidationError")
        => (lastEnd.attempt = 1 /\ lastEnd.callRes = "ValidationError")

(***************************************************************************)
(* C9: when an execution cycle returns whose dispatch was the third        *)
(* failure in a row for its key, the instance is not in the store, no      *)
(* timer is armed or recorded for the key, the key has no recovery         *)
(* counter, and the cycle has put exactly one entry in the log: a failure  *)
(* carrying the message of the third error.                                *)
(***************************************************************************)
C9_ThirdFailureAborts ==
    [][\A i \in TaskIds :
          (Returns(i, "cycle") /\ tasks[i].streak >= MAX_RECOVERY_ATTEMPTS)
              => LET k == tasks[i].k
                 IN  /\ k \notin DOMAIN instances'
                     /\ k \notin DOMAIN activeTimers'
                     /\ \A x \in armed' : x.k # k
                     /\ k \notin DOMAIN errorRecoveryAttempts'
                     /\ logs' = <<LogEntry(k, FALSE,
                                           <<"Max recovery attempts reached",
                                             tasks[i].err>>)>>
                                \o tasks[i].before.logs]_vars

\* a cycle has returned after the third failure in a row, the last with an
\* error other than the one before
C9_ThreeFailuresInARow ==
    /\ Quiescent
    /\ lastEnd.kind = "cycle" /\ lastEnd.streak = MAX_RECOVERY_ATTEMPTS
    /\ lastEnd.logged = 1
    /\ lastEnd.err = "e2"

(***************************************************************************)
(* C10: an instance is given up only at the third dispatch failure in a    *)
(* row: a successful dispatch in between makes the count begin again.      *)
(***************************************************************************)
C10_AbortOnlyAfterThreeInARow ==
    \A k \in DOMAIN hist.abortStreak :
        hist.abortStreak[k] >= MAX_RECOVERY_ATTEMPTS

(***************************************************************************)
(* C11: when an execution cycle returns whose dispatch was the N-th        *)
(* success in a row for an instance of an action with repeatLimit = N, the *)
(* instance is not in the store, no timer is armed or recorded for the     *)
(* key, and the cycle has shown exactly one completion notification.       *)
(***************************************************************************)
TimerFor(k) == {x \in armed : x.k = k}

C11_RepeatLimitStops ==
    [][\A i \in TaskIds :
          LET k == tasks[i].k
              limit == scope.repeatLimit[k[1]]
          IN  (Returns(i, "cycle") /\ k[1] \in Actions /\ limit # 0
                 /\ tasks[i].outcome = "success" /\ tasks[i].okStreak >= limit)
              => /\ k \notin DOMAIN instances'
                 /\ k \notin DOMAIN activeTimers'
                 /\ \A x \in armed' : x.k # k
                 /\ notifications' = Append(tasks[i].before.notifications,
                                            [k |-> k, reason |-> "executions"])]_vars

\* a cycle has returned after the N-th successful dispatch in a row, the
\* time limit not being reached
C11_LimitReachedByDispatches ==
    /\ Quiescent
    /\ lastEnd.kind = "cycle" /\ lastEnd.outcome = "success"
    /\ lastEnd.okStreak = RepeatLimit
    /\ now - lastEnd.startedAt < TimeLimit
    /\ lastEnd.notified = 1
    /\ lastEnd.k \notin DOMAIN instances

(***************************************************************************)
(* C12: when an execution cycle returns after a successful dispatch with   *)
(* both the repeat limit and the time limit reached, the instance is       *)
(* stopped and the one completion notification shown is the one for the    *)
(* executions; a notification for the time is shown only when the repeat   *)
(* limit was not reached, and the key has a timer again exactly when       *)
(* neither limit was reached.                                              *)
(***************************************************************************)
C12_RepeatLimitFirst ==
    [][\A i \in TaskIds :
          (Returns(i, "cycle") /\ tasks[i].outcome = "success")
          => LET k == tasks[i].k
                 was == tasks[i].before.instances[k]
                 repeatHit == /\ scope.repeatLimit[k[1]] # 0
                              /\ was.executionCount + 1 >= scope.repeatLimit[k[1]]
                 timeHit == /\ scope.timeLimit[k[1]] # 0
                            /\ now - was.startedAt >= scope.timeLimit[k[1]]
                 shown == SubSeq(notifications',
                                 Len(tasks[i].before.notifications) + 1,
                                 Len(notifications'))
             IN  /\ (repeatHit /\ timeHit)
                        => /\ shown = <<[k |-> k, reason |-> "executions"]>>
                           /\ k \notin DOMAIN instances'
                 /\ (\E j \in 1..Len(shown) : shown[j].reason = "minutes")
                        => (~repeatHit /\ timeHit /\ Len(shown) = 1)
                 /\ (k \in DOMAIN activeTimers' \/ TimerFor(k)' # {})
                        <=> (~repeatHit /\ ~timeHit)]_vars

\* a cycle has returned whose successful dispatch reached both limits
C12_BothLimitsReached ==
    /\ Quiescent
    /\ lastEnd.kind = "cycle" /\ lastEnd.outcome = "success"
    /\ scope.repeatLimit[lastEnd.k[1]] # 0
    /\ lastEnd.okStreak >= scope.repeatLimit[lastEnd.k[1]]
    /\ scope.timeLimit[lastEnd.k[1]] # 0
    /\ now - lastEnd.startedAt >= scope.timeLimit[lastEnd.k[1]]
    /\ lastEnd.reason = "executions"

(***************************************************************************)
(* C13: an execution cycle that finds its tab on a page of a restricted    *)
(* scheme leaves the instance in the store with the executionCount it had, *)
(* leaves the recovery counter of the key as it was, and shows no          *)
(* completion notification.                                                *)
(***************************************************************************)
C13_RestrictedPageIsSkipped ==
    [][\A i \in TaskIds :
          (Returns(i, "cycle") /\ Restricted(tasks[i].url))
          => LET k == tasks[i].k
             IN  /\ k \in DOMAIN instances'
                 /\ instances'[k].executionCount =
                        tasks[i].before.instances[k].executionCount
                 /\ Get0(errorRecoveryAttempts', k) =
                        Get0(tasks[i].before.errorRecoveryAttempts, k)
                 /\ notifications' = tasks[i].before.notifications]_vars

(***************************************************************************)
(* C14: an execution cycle that finds its tab on a page with a known URL   *)
(* which contains none of the patterns of the action's non-empty URL       *)
(* filter dispatches nothing, leaves the executionCount and the recovery   *)
(* counter of the key as they were, and returns with a timer armed and     *)
(* recorded for the key.                                                   *)
(***************************************************************************)
Pattern(f) == IF StartsWith(f, <<"*.">>) THEN Tail(f) ELSE f
SomePatternIn(url, filter) ==
    \E j \in 1..Len(filter) : Includes(url, Pattern(filter[j]))

\* the cycle of task i found its tab, on a page its action's filter excludes
FilterExcludes(i) ==
    /\ tasks[i].outcome \notin {"none", "tabMissing"}
    /\ scope.urlFilter[tasks[i].k[1]] # << >>
    /\ ~SomePatternIn(tasks[i].url, scope.urlFilter[tasks[i].k[1]])

SkippedAndRescheduled(i) ==
    LET k == tasks[i].k
    IN  /\ tasks[i].outcome \notin {"success", "failure", "skipped"}
        /\ k \in DOMAIN instances'
        /\ instances'[k].executionCount =
               tasks[i].before.instances[k].executionCount
        /\ Get0(errorRecoveryAttempts', k) =
               Get0(tasks[i].before.errorRecoveryAttempts, k)
        /\ k \in DOMAIN activeTimers'
        /\ \E x \in armed' : x.k = k /\ x.id = activeTimers'[k]

C14_FilterMismatchReschedules ==
    [][\A i \in TaskIds :
          (Returns(i, "cycle") /\ FilterExcludes(i) /\ tasks[i].url # << >>)
              => SkippedAndRescheduled(i)]_vars

\* (as stated, for a tab whose URL is not known as well)
C14_AnyUrlOutsideTheFilter ==
    [][\A i \in TaskIds :
          (Returns(i, "cycle") /\ FilterExcludes(i))
              => SkippedAndRescheduled(i)]_vars

\* a cycle has returned that found a page outside the filter of its action
C14_CycleSkippedByFilter ==
    /\ Quiescent
    /\ lastEnd.kind = "cycle" /\ lastEnd.outcome = "filtered"
    /\ lastEnd.url # << >>
    /\ lastEnd.k \in DOMAIN activeTimers
    /\ TimerFor(lastEnd.k) # {}

(***************************************************************************)
(* C16: when an execution cycle returns whose tab lookup failed, the       *)
(* instance is not in the store, no timer is armed or recorded for the     *)
(* key, the key has no recovery counter, whatever the counter was, and no  *)
(* failure has been logged.                                                *)
(***************************************************************************)
C16_MissingTabStopsInstance ==
    [][\A i \in TaskIds :
          (Returns(i, "cycle") /\ tasks[i].outcome = "tabMissing")
          => LET k == tasks[i].k
             IN  /\ k \notin DOMAIN instances'
                 /\ k \notin DOMAIN activeTimers'
                 /\ \A x \in armed' : x.k # k
                 /\ k \notin DOMAIN errorRecoveryAttempts'
                 /\ logs' = tasks[i].before.logs]_vars

\* a cycle has returned whose tab lookup failed while the recovery counter
\* of the key was not zero
C16_TabMissingAfterAFailure ==
    /\ Quiescent
    /\ lastEnd.kind = "cycle" /\ lastEnd.outcome = "tabMissing"
    /\ lastEnd.attempts >= 1

(***************************************************************************)
(* C15: when the tab-closed handler returns, every instance that was       *)
(* stored for the tab is gone from the store, has no timer armed or        *)
(* recorded, and has exactly one more "tab was closed" entry in the log.   *)
(***************************************************************************)
CountIn(seq, e) == Cardinality({j \in 1..Len(seq) : seq[j] = e})

C15_TabClosedCleansUp ==
    [][\A i \in TaskIds :
          Returns(i, "tabClosed")
          => \A k \in DOMAIN tasks[i].before.instances :
                k[2] = tasks[i].k[2]
                => LET entry == LogEntry(k, FALSE, <<"Tab was closed", "none">>)
                   IN  /\ k \notin DOMAIN instances'
                       /\ k \notin DOMAIN activeTimers'
                       /\ \A x \in armed' : x.k # k
                       /\ CountIn(logs', entry) =
                              CountIn(tasks[i].before.logs, entry) + 1]_vars

(***************************************************************************)
(* C17: when a global toggle that found scheduling on returns, the timer   *)
(* registry is empty, no timer is armed, and the stored instances are as   *)
(* they were, their enabled flags included.                                *)
(***************************************************************************)
C17_ToggleOffDisarmsAll ==
    [][\A i \in TaskIds :
          (Returns(i, "toggle") /\ tasks[i].before.globalEnabled)
              => /\ ~globalEnabled'
                 /\ activeTimers' = EmptyMap
                 /\ armed' = {}
                 /\ instances' = tasks[i].before.instances]_vars

\* a toggle has switched scheduling off while a timer was armed for each of
\* the instances of an action at its limit
C17_FiveTimersDisarmed ==
    /\ Quiescent
    /\ lastEnd.kind = "toggle" /\ ~lastEnd.flag
    /\ lastEnd.hadTimers = MAX_INSTANCES_PER_ACTION
    /\ Cardinality(EnabledKeys(instances)) = MAX_INSTANCES_PER_ACTION

(***************************************************************************)
(* C18: when a global toggle that found scheduling off returns, the keys   *)
(* of the timer registry are the keys whose stored instance has            *)
(* enabled = true, each with its timer armed.                              *)
(***************************************************************************)
C18_ToggleOnArmsEnabled ==
    [][\A i \in TaskIds :
          (Returns(i, "toggle") /\ ~tasks[i].before.globalEnabled)
              => /\ globalEnabled'
                 /\ DOMAIN activeTimers' = EnabledKeys(instances')
                 /\ \A k \in DOMAIN activeTimers' :
                        \E x \in armed' : x.k = k /\ x.id = activeTimers'[k]]_vars

\* a toggle has switched scheduling on again after an instance was stopped
\* while it was off
C18_RearmedWhatIsStillEnabled ==
    /\ Quiescent
    /\ lastEnd.kind = "toggle" /\ lastEnd.flag
    /\ lastEnd.hadTimers = 0
    /\ Cardinality(DOMAIN activeTimers) = MAX_INSTANCES_PER_ACTION - 1
    /\ DOMAIN scope.store \ DOMAIN instances # {}

(***************************************************************************)
(* C20: when a forced re-initialization returns while global scheduling is *)
(* disabled, the timer registry is empty, no timer is armed, and the badge *)
(* count is 0.                                                             *)
(***************************************************************************)
C20_RefreshWhileDisabledClears ==
    [][\A i \in TaskIds :
          (Returns(i, "refresh") /\ ~globalEnabled)
              => /\ activeTimers' = EmptyMap
                 /\ armed' = {}
                 /\ badge' = 0]_vars

(***************************************************************************)
(* C19: no execution cycle whose timer fired while the stored global flag  *)
(* was off, the flag having stayed off since, comes to dispatch; and if    *)
(* from some point on global scheduling stays off, then from some point on *)
(* the timer registry stays empty and no timer is armed.                   *)
(***************************************************************************)
NoDispatchWhileOff ==
    \A i \in TaskIds :
        (tasks[i].kind = "cycle" /\ tasks[i].firedOff)
            => tasks[i].pc # "cyc_execute" /\ tasks[i].outcome = "none"

C19_DisabledDrainsTimers ==
    /\ []NoDispatchWhileOff
    /\ <>[](~globalEnabled) => <>[](activeTimers = EmptyMap /\ armed = {})

\* global scheduling is off and a cycle has returned whose timer, armed by
\* a cycle that was in flight when scheduling was switched off, fired
\* afterwards
C19_LateCycleSawTheFlag ==
    /\ Quiescent
    /\ ~globalEnabled
    /\ lastEnd.kind = "cycle" /\ lastEnd.firedOff
    /\ lastEnd.prevKind \in {"cycle", "toggle"}
    /\ activeTimers = EmptyMap /\ armed = {}

(***************************************************************************)
(* The settings calculateInterval was called with, as the claims about it  *)
(* read them.                                                              *)
(***************************************************************************)
Called == intervalMs # -1
UnitMs ==
    IF scope.action.timeUnit = "seconds" THEN 1000
    ELSE IF scope.action.timeUnit = "minutes" THEN 60000
    ELSE IF scope.action.timeUnit = "hours" THEN 3600000
    ELSE 1
Clamped(x) == IF x < 100 THEN 100 ELSE IF x > 86400000 THEN 86400000 ELSE x
Randomized ==
    scope.action.randomize
        /\ (scope.action.randomizeMin # 0 \/ scope.action.randomizeMax # 0)

(***************************************************************************)
(* C25: for an action without randomization calculateInterval returns      *)
(* interval x multiplier clamped to [100, 86400000], the multiplier being  *)
(* 1000 for seconds, 60000 for minutes, 3600000 for hours and 1 otherwise; *)
(* 5 seconds give exactly 5000.                                            *)
(***************************************************************************)
C25_PlainIntervalIsClampedBase ==
    (Called /\ ~Randomized) =>
        /\ intervalMs = Clamped(scope.action.interval * UnitMs)
        /\ (scope.action.interval = 5 /\ scope.action.timeUnit = "seconds")
               => intervalMs = 5000

\* 5 seconds gave 5000
C25_FiveSecondsGave5000 ==
    /\ Called /\ ~Randomized
    /\ scope.action.interval = 5 /\ scope.action.timeUnit = "seconds"
    /\ intervalMs = 5000

(***************************************************************************)
(* C26: whatever the settings, randomized or not, and whatever the draw,   *)
(* the delay calculateInterval returns lies within [100, 86400000].        *)
(***************************************************************************)
C26_DelayWithinBounds ==
    Called => intervalMs \in MIN_INTERVAL_MS..MAX_INTERVAL_MS

(***************************************************************************)
(* C27: for randomized settings with max >= min and a converted max above  *)
(* 0, and any draw, the delay lies between the converted min and the       *)
(* converted max; when min = max it is that value.                         *)
(***************************************************************************)
C27_RandomDelayWithinRange ==
    (/\ Called /\ Randomized
     /\ scope.action.randomizeMax >= scope.action.randomizeMin
     /\ scope.action.randomizeMax * UnitMs > 0) =>
        /\ scope.action.randomizeMin * UnitMs <= intervalMs
        /\ intervalMs <= scope.action.randomizeMax * UnitMs

(***************************************************************************)
(* C28: for randomized settings given with randomizeMin > randomizeMax,    *)
(* calculateInterval returns exactly the converted min.                    *)
(***************************************************************************)
C28_SwappedRangeGivesMin ==
    (/\ Called /\ Randomized
     /\ scope.action.randomizeMin > scope.action.randomizeMax) =>
        intervalMs = scope.action.randomizeMin * UnitMs

(***************************************************************************)
(* C23: store operations issued under one operation name through           *)
(* executeWithRetry never run at the same time (an operation runs from the *)
(* moment it is started to the moment it has settled, its retries          *)
(* included), and the failure of an earlier call is not raised in a later  *)
(* one: a call that awaits an earlier call of its name does not return at  *)
(* the moment the earlier call settles, it starts its own operation.       *)
(***************************************************************************)
Running(i) ==
    /\ tasks[i].kind # "idle"
    /\ tasks[i].op \in InstanceOps
    /\ tasks[i].pc \in {"rmw_read", "rmw_write", "rmw_delay"}

OneAtATimePerName ==
    \A i, j \in TaskIds :
        (i # j /\ Running(i) /\ Running(j)) => tasks[i].op # tasks[j].op

WaiterRunsItsOperation ==
    \A j \in TaskIds :
        (tasks[j].pc = "rmw_wait" /\ tasks'[j].pc # "rmw_wait") => Running(j)'

C23_SerializedPerName == []OneAtATimePerName /\ [][WaiterRunsItsOperation]_vars

(***************************************************************************)
(* C24: the write of an instance-store call changes the stored instance of *)
(* its own (action, tab) key only: it neither brings back nor removes nor  *)
(* alters the instance of another key, whatever calls it overlapped.       *)
(***************************************************************************)
C24_WriteTouchesOwnKeyOnly ==
    [][\A i \in TaskIds :
          (tasks[i].pc = "rmw_write" /\ tasks'[i].pc # "rmw_write")
              => \A k \in Keys \ {tasks[i].k} :
                    /\ (k \in DOMAIN instances') <=> (k \in DOMAIN instances)
                    /\ k \in DOMAIN instances => instances'[k] = instances[k]]_vars

(***************************************************************************)
(* C22: when stopActionOnAllTabs(actionId) returns, whatever the number of *)
(* instances the action had, the store holds no instance of the action and *)
(* activeTimers holds no key of the action.                                *)
(***************************************************************************)
C22_StopAllLeavesNothing ==
    [][\A i \in TaskIds :
          Returns(i, "stopAll")
              => /\ InstancesOf(instances', tasks[i].k[1]) = {}
                 /\ InstancesOf(activeTimers', tasks[i].k[1]) = {}]_vars

(***************************************************************************)
(* C30: a stop of an instance cancels the timer of the key and removes its *)
(* registry entry, discards the recovery counter, and removes the stored   *)
(* instance last: at the moment the removeActionInstance of a stop takes   *)
(* the instance out of the store, no timer of the key is armed, and the    *)
(* key has no registry entry and no recovery counter.                      *)
(***************************************************************************)
StopRemoves(i) ==
    /\ tasks[i].op = "removeActionInstance"
    /\ tasks[i].pc = "rmw_write" /\ tasks'[i].pc # "rmw_write"
    /\ tasks[i].k \in DOMAIN instances
    /\ tasks[i].k \notin DOMAIN instances'

C30_StopCancelsBeforeItRemoves ==
    [][\A i \in TaskIds :
          StopRemoves(i)
              => /\ \A x \in armed' : x.k # tasks[i].k
                 /\ tasks[i].k \notin DOMAIN activeTimers'
                 /\ tasks[i].k \notin DOMAIN errorRecoveryAttempts']_vars

\* the key has a timer armed exactly when the store holds an enabled instance
\* of it
TimerMatchesStore(k) ==
    (TimerFor(k) # {}) <=> (k \in DOMAIN instances /\ instances[k].enabled)

\* the handler of task i returns, after a store call of it threw a StorageError
ReturnsAfterStoreError(i) ==
    /\ tasks[i].kind \in {"start", "stop", "cycle"}
    /\ tasks'[i].kind = "idle"
    /\ lastEnd'.kind = tasks[i].kind
    /\ lastEnd'.k = tasks[i].k
    /\ lastEnd'.storeErr

\* C29: when a start, a stop or an execution cycle in which a store call
\* failed with a StorageError returns, a timer is armed for its key if and
\* only if the store holds an enabled instance for the key.
C29_TimerMatchesStoreAfterError ==
    [][\A i \in TaskIds : \A k \in scope.keys :
          ReturnsAfterStoreError(i) /\ k = tasks[i].k => TimerMatchesStore(k)']_vars

\* initializeTimers returns in task i after exactly one of its
\* scheduleActionOnTab calls threw
InitReturnsWithOneFailed(i) ==
    /\ tasks[i].pc = "init_wait"
    /\ tasks'[i].kind = "idle"
    /\ lastEnd'.kind = tasks[i].kind
    /\ Cardinality(lastEnd'.threw) = 1

\* C21: when initializeTimers, with global scheduling on, has met a failure
\* of scheduleActionOnTab for one enabled instance, it returns without
\* throwing with a timer armed and recorded for every other enabled instance
\* it read, and with no registry entry for the key that failed.
C21_InitIsolatesFailedSchedule ==
    [][\A i \in TaskIds :
          InitReturnsWithOneFailed(i) =>
              /\ lastEnd'.res # "error"
              /\ \A k \in EnabledKeys(tasks[i].snap) :
                     IF k \in lastEnd'.threw
                     THEN k \notin DOMAIN activeTimers'
                     ELSE /\ k \in DOMAIN activeTimers'
                          /\ TimerFor(k)' # {}]_vars

\* task i is in a call of the store function n, past the await of the
\* promise it found pending
InCall(i, n) ==
    /\ tasks[i].kind # "idle"
    /\ \/ tasks[i].op = n /\ tasks[i].pc \in {"rmw_read", "rmw_write", "rmw_delay"}
       \/ AcquireAt(tasks[i].pc) = n /\ tasks[i].waitOn = 0

\* the loop variable of a call stays within the attempts allowed
AttemptsBounded ==
    \A i \in TaskIds : Running(i) => tasks[i].attempt \in 1..MAX_RETRY_ATTEMPTS

\* an entry of pendingOperations belongs to a call that is running
NoEntryLeftBehind ==
    \A n \in OpNames :
        pendingOperations[n] # 0 => \E i \in TaskIds : InCall(i, n)

\* an attempt of the call of task i ends: with its result, and the call
\* returns it; or with an error before the last attempt, and the next
\* attempt follows a delay; or with an error in the last attempt, and the
\* call throws a StorageError
AttemptEnds(i) ==
    \/ /\ tasks'[i].kind = "idle"
       /\ lastEnd'.callRes \in {"ok", "null"}
       /\ lastEnd'.attempt = tasks[i].attempt
    \/ /\ tasks[i].attempt < MAX_RETRY_ATTEMPTS
       /\ tasks'[i].pc = "rmw_delay"
       /\ tasks'[i].attempt = tasks[i].attempt + 1
    \/ /\ tasks[i].attempt = MAX_RETRY_ATTEMPTS
       /\ tasks'[i].kind = "idle"
       /\ lastEnd'.callRes = "StorageError"
    \/ /\ tasks[i].pc = "rmw_read"
       /\ tasks'[i].pc = "rmw_write"
       /\ tasks'[i].attempt = tasks[i].attempt

RetryLoop ==
    \A i \in TaskIds :
        (tasks[i].kind = "call" /\ tasks[i].pc \in {"rmw_read", "rmw_write"}
            /\ tasks'[i].pc # tasks[i].pc)
        => AttemptEnds(i)

(***************************************************************************)
(* C40: executeWithRetry runs its operation at most MAX_RETRY_ATTEMPTS     *)
(* times; an attempt that succeeds ends the call with its result, an       *)
(* attempt that fails is followed by another unless it was the third, and  *)
(* then the call throws a StorageError; every call that began returns or   *)
(* throws; and pendingOperations holds an entry for a name only while a    *)
(* call of that name is running.                                           *)
(***************************************************************************)
C40_RetryAtMostThrice ==
    /\ [](AttemptsBounded /\ NoEntryLeftBehind)
    /\ [][RetryLoop]_vars
    /\ []<>Quiescent

\* a call has returned the result of its third attempt
C40_ThirdAttemptSucceeded ==
    /\ lastEnd.kind = "call"
    /\ lastEnd.callRes = "ok"
    /\ lastEnd.attempt = MAX_RETRY_ATTEMPTS
    /\ lastEnd.opErr = "Error"

(***************************************************************************)
(* C39: a start request that returns an error (unknown action, instance    *)
(* limit reached, store failure) leaves the stored instances, the timer    *)
(* registry and the global flag as it found them.                          *)
(***************************************************************************)
C39_FailedStartChangesNothing ==
    [][\A i \in TaskIds :
          (Returns(i, "start") /\ lastEnd'.kind = "start"
              /\ lastEnd'.res \in {"ACTION_NOT_FOUND", "START_ERROR"})
          => /\ instances' = tasks[i].before.instances
             /\ activeTimers' = tasks[i].before.activeTimers
             /\ globalEnabled' = tasks[i].before.globalEnabled]_vars

\* errorRecoveryAttempts has entries only for keys with a stored instance
CountersOfStoredOnly == DOMAIN errorRecoveryAttempts \subseteq DOMAIN instances

\* a start request that returns success leaves its key without a counter
StartLeavesNoCounter ==
    \A i \in TaskIds : \A k \in scope.keys :
        (Returns(i, "start") /\ k = tasks[i].k /\ lastEnd'.kind = "start"
            /\ lastEnd'.res = "success")
        => k \notin DOMAIN errorRecoveryAttempts'

(***************************************************************************)
(* C37: errorRecoveryAttempts has an entry only for keys that have a       *)
(* stored instance, and the instance a start request has created begins    *)
(* with no failure counted for its key.                                    *)
(***************************************************************************)
C37_NewInstanceHasNoCounter ==
    []CountersOfStoredOnly /\ [][StartLeavesNoCounter]_vars

(***************************************************************************)
(* C38: whenever no handler is in progress, the badge shows the number of  *)
(* stored instances that are enabled if global scheduling is on, and 0 if  *)
(* it is off.                                                              *)
(***************************************************************************)
C38_BadgeCountsEnabled ==
    Quiescent => badge = IF globalEnabled THEN CountEnabled(instances) ELSE 0

\* the execution cycles of the key in flight
CyclesOf(k) == {i \in TaskIds : tasks[i].kind = "cycle" /\ tasks[i].k = k}

(***************************************************************************)
(* C34: for every key, at most one execution cycle is in flight at any     *)
(* time, from the fire of its timer to its return.                         *)
(***************************************************************************)
C34_OneCyclePerKey ==
    \A k \in scope.keys : Cardinality(CyclesOf(k)) <= 1

\* the stored executionCount of a key does not decrease in a step that
\* keeps its instance (startedAt tells a new instance from the one before)
CountNeverDecreases ==
    \A k \in scope.keys :
        (/\ k \in DOMAIN instances /\ k \in DOMAIN instances'
         /\ instances'[k].startedAt = instances[k].startedAt
         /\ \A i \in TaskIds : ~(tasks[i].op = "addActionInstance"
                                    /\ tasks[i].pc = "rmw_write"
                                    /\ tasks'[i].pc # "rmw_write"))
        => instances'[k].executionCount >= instances[k].executionCount

\* with no handler in flight, the stored executionCount of an instance is
\* the number of scripts injected for its key since it was created
CountIsDispatches ==
    Quiescent =>
        \A k \in DOMAIN instances :
            instances[k].executionCount = Get0(hist.dispatched, k)

(***************************************************************************)
(* C35: while an instance exists its stored executionCount never           *)
(* decreases, and it is the number of successful dispatches performed for  *)
(* the key since the latest start created the instance.                    *)
(***************************************************************************)
C35_CountIsSuccessfulDispatches ==
    []CountIsDispatches /\ [][CountNeverDecreases]_vars

(***************************************************************************)
(* C36: for an action with a repeat limit N, no more than N dispatches are *)
(* performed for an instance between its creation and its removal.         *)
(***************************************************************************)
C36_DispatchesWithinRepeatLimit ==
    \A k \in scope.keys :
        scope.repeatLimit[k[1]] # 0 =>
            Get0(hist.dispatched, k) <= scope.repeatLimit[k[1]]

\* the key has an enabled instance in the store
EnabledInStore(k) == k \in DOMAIN instances /\ instances[k].enabled

\* the cycle of task i takes the actions it asked the store for
Reloads(i) ==
    /\ tasks[i].kind = "cycle"
    /\ tasks[i].pc = "cyc_getActions"
    /\ tasks'[i].pc # "cyc_getActions"

(***************************************************************************)
(* C33: a cycle looks its instance up in the store after its timer fired;  *)
(* when the key has no enabled instance there, the cycle goes on to the    *)
(* badge refresh and returns, without a dispatch, and the registry holds   *)
(* no entry for the key from that moment.                                  *)
(***************************************************************************)
C33_StaleTimerEndsAtReload ==
    [][\A i \in TaskIds : \A k \in scope.keys :
          (Reloads(i) /\ k = tasks[i].k /\ ~EnabledInStore(k))
          => /\ k \notin DOMAIN activeTimers'
             /\ tasks'[i].pc = "badge_getActions"
             /\ tasks'[i].ret = "end"]_vars

\* the timer of a key whose instance was removed has fired, and its cycle
\* has found the key without an instance
C33_CycleFoundNoInstance ==
    \E i \in TaskIds :
        /\ tasks[i].kind = "cycle"
        /\ tasks[i].pc = "badge_getActions"
        /\ tasks[i].outcome = "none"
        /\ tasks[i].k \notin DOMAIN instances
        /\ tasks[i].k \notin DOMAIN activeTimers
(***************************************************************************)
(* C31: with global scheduling enabled, the instance stored and enabled,   *)
(* the tab open and every store call succeeding, an execution cycle that   *)
(* neither reaches a limit nor aborts after failed dispatches returns with *)
(* a timer armed and recorded for its key.                                 *)
(***************************************************************************)
CycleMayGoOn(i) ==
    /\ Returns(i, "cycle")
    /\ tasks[i].before.globalEnabled
    /\ tasks[i].k \in DOMAIN tasks[i].before.instances
    /\ tasks[i].before.instances[tasks[i].k].enabled
    /\ tasks[i].k[2] \in tabsOpen
    /\ ~lastEnd'.storeErr
    /\ lastEnd'.reason = "none"
    /\ lastEnd'.logged = 0

KeyArmed(k) ==
    /\ k \in DOMAIN activeTimers
    /\ \E x \in armed : x.k = k /\ x.id = activeTimers[k]

CycleLeavesTimer(i) ==
    \A k \in scope.keys : k = tasks[i].k => KeyArmed(k)'

C31_TimerChainGoesOn ==
    [][\A i \in TaskIds : CycleMayGoOn(i) => CycleLeavesTimer(i)]_vars
(***************************************************************************)
(* C32: while the dispatch of one key never returns, no timer is armed for *)
(* that key, and the cycles of the other key go on: each of them returns,  *)
(* and one that neither reaches a limit nor aborts leaves a timer armed    *)
(* and recorded for its key, or the cycle which that timer has begun.      *)
(***************************************************************************)
SomeHung == \E i \in TaskIds : Hung(i)

CycleKeepsChain(i) ==
    \A k \in scope.keys :
        k = tasks[i].k => (KeyArmed(k) \/ CyclesOf(k) # {})'

HungKeyNotRescheduled == SomeHung => TimerFor(HungKey) = {}

OthersRescheduled ==
    \A i \in TaskIds :
        (SomeHung /\ tasks[i].k # HungKey /\ CycleMayGoOn(i)) => CycleKeepsChain(i)

OthersReturn ==
    \A k \in FailKeys \ {HungKey} : (CyclesOf(k) # {}) ~> (CyclesOf(k) = {})

C32_HungDispatchStopsOneKey ==
    /\ []HungKeyNotRescheduled
    /\ [][OthersRescheduled]_vars
    /\ OthersReturn

\* the cycle of HungKey began when the other key had no dispatch behind it;
\* the other key has been dispatched twice since and its timer is armed
C32_OtherKeyDispatchedTwice ==
    \E i \in TaskIds :
        /\ Hung(i)
        /\ Settled
        /\ tasks[i].before.instances[<<"a1", 2>>].executionCount = 0
        /\ EnabledInStore(<<"a1", 2>>)
        /\ instances[<<"a1", 2>>].executionCount = 2
        /\ KeyArmed(<<"a1", 2>>)
====
